---------------------------- MODULE Spec2Model ----------------------------
(***************************************************************************)
(* Report-ingestion pipeline: HTML table -> normalized rows -> CSV ->      *)
(* upsert into the tabs of a remote spreadsheet (html-to-csv.js and the    *)
(* sync script that follows it in the same source file).                   *)
(*                                                                         *)
(* Text is modelled by TLA+ strings, processed character by character     *)
(* with Head / Tail / SubSeq / Len, the way the JavaScript does.           *)
(***************************************************************************)
EXTENDS Integers, Sequences, FiniteSets, TLC

VARIABLES
    \* ---- the remote spreadsheet and the sync runs --------------------
    sheet,      \* tab name -> rows of the tab, each row a sequence of displayed texts
    missing,    \* tab -> 200 when the tab exists, else the code its calls are answered with
    status,     \* run -> "idle" | "running" | "done" | "failed"
    args,       \* run -> the parsed command line (parseArgs) and the .env state
    datasets,   \* run -> tab -> the rows main hands to pushToSheet for that tab
    req,        \* run -> the remote call the run is awaiting, or NoReq
    newValues,  \* run -> removeRowsForDate's [header, ...filteredRows]
    log,        \* run -> the remote calls that have returned, with their result code
    faults,     \* number of transient remote errors so far
    overlapped, \* TRUE once a run started while another one was running
    \* ---- the work area of the pure functions -------------------------
    applied,    \* the function that has been applied, "" before
    input,      \* its argument
    output      \* its result

syncVars == <<sheet, missing, status, args, datasets, req, newValues, log, faults, overlapped>>
pureVars == <<applied, input, output>>
vars == <<sheet, missing, status, args, datasets, req, newValues, log, faults, overlapped,
          applied, input, output>>

(***************************************************************************)
(* Bounds of the model.                                                    *)
(***************************************************************************)
MaxRuns == 2
MaxFaults == 1
MaxCsvLen == 2

(***************************************************************************)
(* Strings.                                                                *)
(***************************************************************************)
Digits == {"0", "1", "2", "3", "4", "5", "6", "7", "8", "9"}
UpperCase == "ABCDEFGHIJKLMNOPQRSTUVWXYZ"
LowerCase == "abcdefghijklmnopqrstuvwxyz"
\* JavaScript's \s, as far as the model's texts go
WhiteSpace == {" ", "\t", "\n", "\r"}
LineTerminators == {"\n", "\r"}

CharAt(s, i) == SubSeq(s, i, i)

RECURSIVE IndexOfChar(_, _, _)
\* 1-based position of character c in s at or after i, 0 when absent
IndexOfChar(s, c, i) ==
    IF i > Len(s) THEN 0
    ELSE IF CharAt(s, i) = c THEN i
    ELSE IndexOfChar(s, c, i + 1)

Contains(s, c) == IndexOfChar(s, c, 1) # 0

Letters == {CharAt(UpperCase, k) : k \in 1..26} \cup {CharAt(LowerCase, k) : k \in 1..26}

IsLetter(c) == c \in Letters

\* upper-case letter -> lower-case letter
LowerOf == [c \in {CharAt(UpperCase, k) : k \in 1..26} |->
              CharAt(LowerCase, IndexOfChar(UpperCase, c, 1))]

LowerChar(c) == IF c \in DOMAIN LowerOf THEN LowerOf[c] ELSE c

RECURSIVE ToLowerCase(_)
ToLowerCase(s) ==
    IF s = "" THEN "" ELSE LowerChar(Head(s)) \o ToLowerCase(Tail(s))

RECURSIVE TrimStart(_)
TrimStart(s) ==
    IF s # "" /\ Head(s) \in WhiteSpace THEN TrimStart(Tail(s)) ELSE s

RECURSIVE TrimEnd(_)
TrimEnd(s) ==
    IF s # "" /\ CharAt(s, Len(s)) \in WhiteSpace
    THEN TrimEnd(SubSeq(s, 1, Len(s) - 1))
    ELSE s

Trim(s) == TrimEnd(TrimStart(s))

RECURSIVE RemoveChar(_, _)
\* s.replace(/c/g, '')
RemoveChar(s, c) ==
    IF s = "" THEN ""
    ELSE IF Head(s) = c THEN RemoveChar(Tail(s), c)
    ELSE Head(s) \o RemoveChar(Tail(s), c)

RECURSIVE AllChars(_, _)
AllChars(s, set) ==
    s = "" \/ (Head(s) \in set /\ AllChars(Tail(s), set))

RECURSIVE AnyLetter(_)
AnyLetter(s) ==
    s # "" /\ (IsLetter(Head(s)) \/ AnyLetter(Tail(s)))


RECURSIVE StringsUpTo(_, _)
\* every text of at most n characters over an alphabet
StringsUpTo(alphabet, n) ==
    IF n = 0 THEN {""}
    ELSE LET shorter == StringsUpTo(alphabet, n - 1)
         IN shorter \cup {s \o c : s \in shorter, c \in alphabet}

(***************************************************************************)
(* CSV codec.                                                              *)
(***************************************************************************)
RECURSIVE DoubleQuotes(_)
\* value.replace(/"/g, '""')
DoubleQuotes(s) ==
    IF s = "" THEN ""
    ELSE IF Head(s) = "\"" THEN "\"\"" \o DoubleQuotes(Tail(s))
    ELSE Head(s) \o DoubleQuotes(Tail(s))

csvEscape(value) ==
    LET needsQuotes == Contains(value, "\"") \/ Contains(value, ",") \/ Contains(value, "\n")
        escaped == DoubleQuotes(value)
    IN IF needsQuotes THEN "\"" \o escaped \o "\"" ELSE escaped

RECURSIVE Join(_, _)
Join(cells, sep) ==
    IF cells = <<>> THEN ""
    ELSE IF Len(cells) = 1 THEN cells[1]
    ELSE cells[1] \o sep \o Join(Tail(cells), sep)

\* row.map(csvEscape).join(',')
encodeRow(row) == Join([i \in 1..Len(row) |-> csvEscape(row[i])], ",")

RECURSIVE UnDoubleQuotes(_)
\* trimmed.replace(/""/g, '"'), leftmost non-overlapping matches
UnDoubleQuotes(s) ==
    IF Len(s) < 2 THEN s
    ELSE IF SubSeq(s, 1, 2) = "\"\"" THEN "\"" \o UnDoubleQuotes(SubSeq(s, 3, Len(s)))
    ELSE Head(s) \o UnDoubleQuotes(Tail(s))

cleanCellValue(value) ==
    LET trimmed == Trim(value)
    IN IF trimmed = "" THEN "" ELSE UnDoubleQuotes(trimmed)

RECURSIVE SplitFrom(_, _, _, _, _)
\* the loop of splitCsvLine from position i on
SplitFrom(line, i, cells, current, inQuotes) ==
    IF i > Len(line) THEN Append(cells, cleanCellValue(current))
    ELSE LET char == CharAt(line, i)
             prev == IF i = 1 THEN "" ELSE CharAt(line, i - 1)
         IN IF char = "\"" /\ prev # "\\"
            THEN SplitFrom(line, i + 1, cells, current, ~inQuotes)
            ELSE IF char = "," /\ ~inQuotes
            THEN SplitFrom(line, i + 1, Append(cells, cleanCellValue(current)), "", inQuotes)
            ELSE SplitFrom(line, i + 1, cells, current \o char, inQuotes)

splitCsvLine(line) == SplitFrom(line, 1, <<>>, "", FALSE)

(***************************************************************************)
(* Report normalizer.  A row is a sequence of texts, a table a sequence of *)
(* rows.                                                                   *)
(***************************************************************************)
UNKNOWN_LABEL == "Unknown"

TotalsLabels == {"total", "totals", "grand totals", "grand total"}

isTotalsRow(row) ==
    IF Len(row) = 0 \/ row[1] = "" THEN FALSE
    ELSE ToLowerCase(Trim(RemoveChar(row[1], ":"))) \in TotalsLabels

RECURSIVE DigitPrefixLen(_)
\* length of the longest prefix of digits
DigitPrefixLen(s) ==
    IF s # "" /\ Head(s) \in Digits THEN 1 + DigitPrefixLen(Tail(s)) ELSE 0

NoMatch == [ok |-> FALSE, id |-> "", name |-> ""]

\* value.match(/^(\d+)\s*-\s*(.*)$/), then { id: match[1], name: match[2].trim() }
parseIdAndName(value) ==
    IF value = "" THEN NoMatch
    ELSE LET n == DigitPrefixLen(value)
             afterId == TrimStart(SubSeq(value, n + 1, Len(value)))
             rest == IF afterId = "" THEN "" ELSE TrimStart(Tail(afterId))
         IN IF n = 0 \/ afterId = "" \/ Head(afterId) # "-" THEN NoMatch
            ELSE IF \E c \in LineTerminators : Contains(rest, c) THEN NoMatch
            ELSE [ok |-> TRUE, id |-> SubSeq(value, 1, n), name |-> Trim(rest)]

isDepartmentRow(row) == Len(row) = 1 /\ parseIdAndName(row[1]).ok

\* row[0] && row[0].trim().toLowerCase() === 'doctor name'
isDoctorHeader(row) ==
    Len(row) > 0 /\ row[1] # "" /\ ToLowerCase(Trim(row[1])) = "doctor name"

AnyDepartmentRow(rows) == \E i \in 1..Len(rows) : isDepartmentRow(rows[i])

looksLikeDepartmentReport(rows) ==
    LET hasDeptRow == \E i \in 1..Len(rows) : isDepartmentRow(rows[i])
        hasDoctorHeader == \E i \in 1..Len(rows) : isDoctorHeader(rows[i])
    IN hasDeptRow /\ hasDoctorHeader

rowIncludesText(row) == \E i \in 1..Len(row) : AnyLetter(row[i])

\* /^[\d\s.,-]+$/
NumericOnlyChars == Digits \cup WhiteSpace \cup {".", ",", "-"}

isNumericOnlyRow(row) ==
    IF Len(row) = 0 THEN FALSE
    ELSE \A i \in 1..Len(row) : row[i] = "" \/ AllChars(row[i], NumericOnlyChars)

KeepsEmpty(x) == x

\* x || UNKNOWN_LABEL
OrUnknown(x) == IF x = "" THEN UNKNOWN_LABEL ELSE x

parseLabelWithFallback(value) ==
    LET parsed == parseIdAndName(value)
        text == Trim(value)
        lower == ToLowerCase(text)
    IN IF parsed.ok
       THEN [id |-> OrUnknown(parsed.id), name |-> OrUnknown(parsed.name)]
       ELSE IF text = "" THEN [id |-> UNKNOWN_LABEL, name |-> UNKNOWN_LABEL]
       ELSE IF lower \in {"unknown", "null", "undefined"}
       THEN [id |-> UNKNOWN_LABEL, name |-> UNKNOWN_LABEL]
       ELSE IF AllChars(text, Digits) THEN [id |-> text, name |-> UNKNOWN_LABEL]
       ELSE [id |-> UNKNOWN_LABEL, name |-> text]

parseDepartment(value) == parseLabelWithFallback(value)

parseDoctor(value) == parseLabelWithFallback(value)

\* the variables of normalizeDepartmentReport before its loop; dept.set and
\* hdr.set tell null from a value
DeptStart ==
    [result |-> <<>>,
     currentDepartment |-> [set |-> FALSE, id |-> "", name |-> ""],
     metricsHeader |-> [set |-> FALSE, labels |-> <<>>],
     lastRowWasTotals |-> FALSE,
     hasDoctorDataInCurrentDept |-> FALSE]

TakesCellZeroAsDoctor(row, metricsHeader) == row

\* metricsHeader && row.length === metricsHeader.length ? ['', ...row] : row
dataRowOf(row, metricsHeader) ==
    IF Len(row) = Len(metricsHeader) THEN <<"">> \o row ELSE row

\* one iteration of the rows.forEach of normalizeDepartmentReport
DeptStep(st, row) ==
    IF isDepartmentRow(row)
    THEN [st EXCEPT !.currentDepartment =
                        [set |-> TRUE, id |-> parseDepartment(row[1]).id,
                         name |-> parseDepartment(row[1]).name],
                    !.lastRowWasTotals = FALSE,
                    !.hasDoctorDataInCurrentDept = FALSE]
    ELSE IF isDoctorHeader(row)
    THEN LET labels == Tail(row)
         IN [st EXCEPT !.metricsHeader = [set |-> TRUE, labels |-> labels],
                       !.result = IF Len(labels) > 0 /\ Len(st.result) = 0
                                  THEN <<<<"Department ID", "Department Name",
                                           "Doctor ID", "Doctor Name">> \o labels>>
                                  ELSE st.result,
                       !.lastRowWasTotals = FALSE,
                       !.hasDoctorDataInCurrentDept = FALSE]
    ELSE IF ~st.currentDepartment.set \/ ~st.metricsHeader.set \/ Len(row) < 2
    THEN st
    ELSE IF isTotalsRow(row)
    THEN [st EXCEPT !.lastRowWasTotals = TRUE]
    ELSE IF isNumericOnlyRow(row)
            /\ (st.lastRowWasTotals
                \/ (st.hasDoctorDataInCurrentDept /\ ~rowIncludesText(row)))
    THEN st
    ELSE LET dataRow == dataRowOf(row, st.metricsHeader.labels)
             doctorInfo == parseDoctor(dataRow[1])
         IN [st EXCEPT !.result = Append(st.result,
                                    <<OrUnknown(st.currentDepartment.id),
                                      OrUnknown(st.currentDepartment.name),
                                      doctorInfo.id, doctorInfo.name>> \o Tail(dataRow)),
                       !.lastRowWasTotals = FALSE,
                       !.hasDoctorDataInCurrentDept = TRUE]

RECURSIVE DeptLoop(_, _)
DeptLoop(st, rows) ==
    IF rows = <<>> THEN st ELSE DeptLoop(DeptStep(st, Head(rows)), Tail(rows))

normalizeDepartmentReport(rows) ==
    LET result == DeptLoop(DeptStart, rows).result
    IN IF Len(result) > 0 THEN result ELSE rows

NotTotalsRow(row) == ~isTotalsRow(row)

normalizeRows(rows) ==
    LET cleaned == SelectSeq(rows, NotTotalsRow)
    IN IF looksLikeDepartmentReport(rows) THEN normalizeDepartmentReport(rows)
       ELSE cleaned

(***************************************************************************)
(* JavaScript values.  Rows read from CSV files hold texts; after          *)
(* formatNumericColumns a cell is a text or a number, and pushToSheet also *)
(* handles null.  v is String(value).                                      *)
(***************************************************************************)
Str(s) == [t |-> "string", v |-> s]
Num(s) == [t |-> "number", v |-> s]
Null == [t |-> "null", v |-> ""]

\* the conversion to boolean of if (x) and x && y
Truthy(x) ==
    CASE x.t = "string" -> x.v # ""
      [] x.t = "number" -> x.v \notin {"0", "NaN"}
      [] OTHER -> FALSE

\* a === b
StrictEq(a, b) == a.t = b.t /\ a.v = b.v

StrRow(row) == [i \in 1..Len(row) |-> Str(row[i])]
\* the texts of a row of values
Texts(row) == [i \in 1..Len(row) |-> row[i].v]

RECURSIVE ParseNat(_, _)
\* the number written by the digits of s, after acc
ParseNat(s, acc) ==
    IF s = "" THEN acc
    ELSE ParseNat(Tail(s), 10 * acc + (CHOOSE d \in 0..9 : CharAt("0123456789", d + 1) = Head(s)))

RECURSIVE NatToString(_)
NatToString(n) ==
    IF n < 10 THEN CharAt("0123456789", n + 1)
    ELSE NatToString(n \div 10) \o CharAt("0123456789", (n % 10) + 1)

RECURSIVE StripLeadingZeros(_)
StripLeadingZeros(s) ==
    IF Len(s) > 1 /\ Head(s) = "0" THEN StripLeadingZeros(Tail(s)) ELSE s

RECURSIVE StripTrailingZeros(_)
StripTrailingZeros(s) ==
    IF s # "" /\ CharAt(s, Len(s)) = "0"
    THEN StripTrailingZeros(SubSeq(s, 1, Len(s) - 1))
    ELSE s

\* String(Number(text)) of a well-formed decimal: int digits, fraction digits
DecimalText(negative, int, frac) ==
    IF frac = "" THEN (IF negative /\ int # "0" THEN "-" \o int ELSE int)
    ELSE (IF negative THEN "-" ELSE "") \o int \o "." \o frac

\* the digits before and after the point of an unsigned literal, n digits first
NumberOfParts(negative, unsigned, n, fraction) ==
    IF /\ AllChars(fraction, Digits)
       /\ (Len(unsigned) = n \/ CharAt(unsigned, n + 1) = ".")
       /\ n + Len(fraction) > 0
    THEN [finite |-> TRUE,
          v |-> DecimalText(negative,
                            IF n = 0 THEN "0" ELSE StripLeadingZeros(SubSeq(unsigned, 1, n)),
                            StripTrailingZeros(fraction))]
    ELSE [finite |-> FALSE, v |-> "NaN"]

NumberOfUnsigned(negative, unsigned, n) ==
    NumberOfParts(negative, unsigned, n,
                  IF Len(unsigned) > n /\ CharAt(unsigned, n + 1) = "."
                  THEN SubSeq(unsigned, n + 2, Len(unsigned)) ELSE "")

NumberOfSigned(negative, unsigned) ==
    NumberOfUnsigned(negative, unsigned, DigitPrefixLen(unsigned))

NumberOfTrimmed(t) ==
    IF t = "" THEN [finite |-> TRUE, v |-> "0"]
    ELSE NumberOfSigned(Head(t) = "-", IF Head(t) \in {"-", "+"} THEN Tail(t) ELSE t)

\* Number(text) for decimal literals: [finite, v], v = String(Number(text)).
\* The empty text is 0.  Exponents, hexadecimal and Infinity are not among
\* the model's texts.
NumberOf(text) == NumberOfTrimmed(Trim(text))

(***************************************************************************)
(* Period normalization.                                                   *)
(***************************************************************************)
Pad2(n) == IF n < 10 THEN "0" \o NatToString(n) ELSE NatToString(n)

\* days from 1970-01-01 to 1899-12-30, the base of excelSerialToIsoDate
SerialEpochOffset == 25569

\* yyyy-mm-dd of a calendar date
IsoDate(y, m, d) == NatToString(y) \o "-" \o Pad2(m) \o "-" \o Pad2(d)

\* the calendar date of day doy (0 = 1 March) of year yoe of a 400-year era
CivilFromMonth(era, yoe, doy, mp) ==
    IsoDate(yoe + era * 400 + (IF mp >= 10 THEN 1 ELSE 0),
            IF mp < 10 THEN mp + 3 ELSE mp - 9,
            doy - (153 * mp + 2) \div 5 + 1)

CivilFromDayOfYear(era, yoe, doy) == CivilFromMonth(era, yoe, doy, (5 * doy + 2) \div 153)

CivilFromYear(era, doe, yoe) ==
    CivilFromDayOfYear(era, yoe, doe - (365 * yoe + yoe \div 4 - yoe \div 100))

CivilFromEra(era, doe) ==
    CivilFromYear(era, doe,
                  (doe - doe \div 1460 + doe \div 36524 - doe \div 146096) \div 365)

\* the UTC calendar date z days after 0000-03-01
CivilFromDays(z) == CivilFromEra(z \div 146097, z % 146097)

\* the UTC calendar date `serial` days after 1899-12-30, as y-mm-dd
excelSerialToIsoDate(serial) == CivilFromDays(serial - SerialEpochOffset + 719468)

DigitsOnly(s) == s # "" /\ AllChars(s, Digits)

\* /^\d+(\.0+)?$/
IsSerial(s) ==
    LET n == DigitPrefixLen(s)
        rest == SubSeq(s, n + 1, Len(s))
    IN /\ n > 0
       /\ \/ rest = ""
          \/ (Len(rest) >= 2 /\ Head(rest) = "." /\ AllChars(Tail(rest), {"0"}))

\* faulty variant: the pattern without its end anchor
IsoPrefix(s) ==
    /\ Len(s) >= 7
    /\ AllChars(SubSeq(s, 1, 4), Digits)
    /\ CharAt(s, 5) = "-"
    /\ AllChars(SubSeq(s, 6, 7), Digits)

\* /^(\d{4})-(\d{2})(?:-(\d{2}))?$/
IsIsoLike(s) ==
    /\ Len(s) \in {7, 10}
    /\ AllChars(SubSeq(s, 1, 4), Digits)
    /\ CharAt(s, 5) = "-"
    /\ AllChars(SubSeq(s, 6, 7), Digits)
    /\ Len(s) = 10 => (CharAt(s, 8) = "-" /\ AllChars(SubSeq(s, 9, 10), Digits))

normalizeTrimmedPeriod(trimmed) ==
    IF trimmed = "" THEN ""
    ELSE IF IsSerial(trimmed)
    THEN excelSerialToIsoDate(ParseNat(SubSeq(trimmed, 1, DigitPrefixLen(trimmed)), 0))
    ELSE IF IsIsoLike(trimmed)
    THEN IF Len(trimmed) = 10 THEN trimmed ELSE trimmed \o "-01"
    ELSE trimmed

normalizePeriod(period) == normalizeTrimmedPeriod(Trim(period))

(***************************************************************************)
(* Column augmentation and formatting (main, before the first remote call) *)
(***************************************************************************)
RECURSIVE FirstIndex(_, _, _)
\* least i >= from with Trim/lower-cased cell i equal to key; 0 when none
\* (indexOf and findIndex give -1)
FirstIndex(header, key, from) ==
    IF from > Len(header) THEN 0
    ELSE IF header[from] # "" /\ ToLowerCase(Trim(header[from])) = key THEN from
    ELSE FirstIndex(header, key, from + 1)

findColumnIndex(header, columnName) ==
    FirstIndex(header, ToLowerCase(Trim(columnName)), 1)

\* copy[index] = value; cells that a short row lacks up to index are empty
SetCell(row, index, value) ==
    [i \in 1..(IF index > Len(row) THEN index ELSE Len(row)) |->
        IF i = index THEN value ELSE IF i <= Len(row) THEN row[i] ELSE ""]

\* the rows with `value` in the column `key`, put first when the header lacks it
setColumn(rows, title, index, value) ==
    IF index = 0
    THEN [i \in 1..Len(rows) |->
            IF i = 1 THEN <<title>> \o rows[1] ELSE <<value>> \o rows[i]]
    ELSE [i \in 1..Len(rows) |->
            IF i = 1 THEN rows[1] ELSE SetCell(rows[i], index, value)]

applyDateColumn(rows, reportPeriod) ==
    IF reportPeriod = "" \/ Len(rows) = 0 THEN rows
    ELSE setColumn(rows, "Date", FirstIndex(rows[1], "date", 1), normalizePeriod(reportPeriod))

applyClinicColumn(rows, clinicName) ==
    IF Len(rows) = 0 THEN rows
    ELSE setColumn(rows, "Clinic", FirstIndex(rows[1], "clinic", 1),
                   IF clinicName # "" THEN Trim(clinicName) ELSE UNKNOWN_LABEL)

\* value of a row at a column, "" standing for undefined
CellAt(row, index) == IF index <= Len(row) THEN row[index] ELSE ""

isMissingText(text) == text = "" \/ ToLowerCase(text) \in {"null", "undefined"}

isMissingValue(value) == isMissingText(Trim(value))

fillColumn(rows, targetIndex) ==
    IF targetIndex = 0 THEN rows
    ELSE [i \in 1..Len(rows) |->
            IF i = 1 THEN rows[1]
            ELSE IF isMissingValue(CellAt(rows[i], targetIndex))
            THEN SetCell(rows[i], targetIndex, UNKNOWN_LABEL)
            ELSE rows[i]]

ensureColumnHasValue(rows, columnName) ==
    IF Len(rows) = 0 THEN rows
    ELSE fillColumn(rows, FirstIndex(rows[1], columnName, 1))

RECURSIVE ensureColumnsHaveValues(_, _)
ensureColumnsHaveValues(rows, columnNames) ==
    IF Len(rows) = 0 \/ columnNames = <<>> THEN rows
    ELSE ensureColumnsHaveValues(ensureColumnHasValue(rows, Head(columnNames)),
                                 Tail(columnNames))

NumericExclusions == {"date", "doctor id", "doctor name", "department id", "department name"}

EveryValueNumeric(dataRows, idx, seen) ==
    \A i \in seen : NumberOf(dataRows[i][idx]).finite

\* hasValue && allNumeric of detectNumericColumnIndices for one column
isNumericColumn(dataRows, idx, seen) ==
    seen # {} /\ \A i \in seen : NumberOf(dataRows[i][idx]).finite

isCandidateColumn(key, exclusionSet) == key # "" /\ key \notin exclusionSet

\* the column indices detectNumericColumnIndices returns, as a set
detectNumericColumnIndices(header, dataRows, exclusionSet) ==
    {idx \in 1..Len(header) :
        /\ isCandidateColumn(ToLowerCase(Trim(header[idx])), exclusionSet)
        /\ isNumericColumn(dataRows, idx,
                           {i \in 1..Len(dataRows) : CellAt(dataRows[i], idx) # ""})}

\* Number.isFinite(numeric) ? numeric : 0
FiniteOrZero(n) == IF n.finite THEN Num(n.v) ELSE Num("0")

\* the greatest of a set of indices and a length
WidthOf(indices, length) ==
    CHOOSE k \in indices \cup {length} : \A j \in indices \cup {length} : j <= k

formatRowsAt(rows, numericIndices) ==
    [i \in 1..Len(rows) |->
        IF i = 1 THEN StrRow(rows[1])
        ELSE [c \in 1..WidthOf(numericIndices, Len(rows[i])) |->
                IF c \in numericIndices
                THEN IF CellAt(rows[i], c) = "" THEN Num("0")
                     ELSE FiniteOrZero(NumberOf(rows[i][c]))
                ELSE Str(CellAt(rows[i], c))]]

\* rows of texts in, rows of values out
formatNumericColumns(rows, exclusionSet) ==
    IF Len(rows) = 0 THEN <<>>
    ELSE formatRowsAt(rows, detectNumericColumnIndices(rows[1], Tail(rows), exclusionSet))

(***************************************************************************)
(* Loading the CSV files (main, before the first remote call).             *)
(***************************************************************************)
KeepsLaterHeaders(target, rows) == target \o rows

appendDataset(target, rows) ==
    IF Len(rows) = 0 THEN target
    ELSE IF Len(target) = 0 THEN rows
    ELSE target \o Tail(rows)

RECURSIVE LoadFrom(_, _)
\* the files.forEach of loadDatasets; files are given by their parsed rows
LoadFrom(files, acc) ==
    IF files = <<>> THEN acc
    ELSE LET rows == Head(files)
             isDepartmentData == Len(rows) > 0 /\ FirstIndex(rows[1], "department id", 1) # 0
         IN IF Len(rows) = 0 THEN LoadFrom(Tail(files), acc)
            ELSE IF isDepartmentData
            THEN LoadFrom(Tail(files),
                          [acc EXCEPT !.departmentRows = appendDataset(@, rows)])
            ELSE LoadFrom(Tail(files),
                          [acc EXCEPT !.revenueRows = appendDataset(@, rows)])

loadDatasets(files) == LoadFrom(files, [revenueRows |-> <<>>, departmentRows |-> <<>>])

(***************************************************************************)
(* The remote spreadsheet.  A tab holds rows of displayed texts; a value   *)
(* written is displayed as String(value); a read returns the displayed     *)
(* texts without trailing empty cells and rows.                            *)
(***************************************************************************)
BASE_REVENUE_TAB == "Revenue"
BASE_DEPARTMENT_TAB == "Department Wise"
OTHER_TAB == "Other"
Tabs == {BASE_REVENUE_TAB, BASE_DEPARTMENT_TAB, OTHER_TAB}
\* the order in which main pushes
TabOrder == <<BASE_REVENUE_TAB, BASE_DEPARTMENT_TAB, OTHER_TAB>>
TabIndex(tab) == CHOOSE i \in 1..3 : TabOrder[i] = tab

OK == 200
BAD_REQUEST == 400
NOT_FOUND == 404
SERVER_ERROR == 500

RECURSIVE StripEmptyTail(_, _)
\* a sequence without its trailing elements equal to `empty`
StripEmptyTail(seq, empty) ==
    IF Len(seq) > 0 /\ seq[Len(seq)] = empty
    THEN StripEmptyTail(SubSeq(seq, 1, Len(seq) - 1), empty)
    ELSE seq

\* the rows a read returns: no trailing empty cells, no trailing empty rows
Canon(rows) == StripEmptyTail([i \in 1..Len(rows) |-> StripEmptyTail(rows[i], "")], <<>>)

\* what the cells display once a row of values is written
Displayed(values) == [i \in 1..Len(values) |-> Texts(values[i])]

\* values.update at A1: the block is written over the cells it covers
UpdateAtA1(old, values) ==
    LET height == IF Len(values) > Len(old) THEN Len(values) ELSE Len(old)
        over(i) == IF i > Len(values) THEN old[i]
                   ELSE IF i > Len(old) THEN values[i]
                   ELSE values[i] \o SubSeq(old[i], Len(values[i]) + 1, Len(old[i]))
    IN Canon([i \in 1..height |-> over(i)])

\* values.append at A1 with INSERT_ROWS: the rows go below the table
AppendBelow(old, values) == Canon(old \o values)

\* values.get of the first row
FirstRow(rows) == IF Len(rows) > 0 /\ rows[1] # <<>> THEN <<rows[1]>> ELSE <<>>

(***************************************************************************)
(* pushToSheet and removeRowsForDate, cut at their awaits.                 *)
(***************************************************************************)
NoReq == [tab |-> "", op |-> "none", values |-> <<>>]
Req(tab, op, values) == [tab |-> tab, op |-> op, values |-> values]

Goto(request) == [req |-> request, status |-> "running"]
Finished == [req |-> NoReq, status |-> "done"]
Aborted == [req |-> NoReq, status |-> "failed"]

\* the key pushToSheet reads from the header and the first data row
targetDate(rows) ==
    LET dateIndex == findColumnIndex(Texts(rows[1]), "date")
    IN IF dateIndex # 0 /\ Len(rows) > 1 /\ dateIndex <= Len(rows[2])
       THEN rows[2][dateIndex] ELSE Null

targetClinic(rows) ==
    LET clinicIndex == findColumnIndex(Texts(rows[1]), "clinic")
    IN IF clinicIndex # 0 /\ Len(rows) > 1 /\ clinicIndex <= Len(rows[2])
       THEN rows[2][clinicIndex] ELSE Null

\* the first remote call of pushToSheet(tab, rows), rows not empty
FirstCall(tab, rows) ==
    IF findColumnIndex(Texts(rows[1]), "date") # 0 /\ Truthy(targetDate(rows))
    THEN Goto(Req(tab, "get", <<>>))
    ELSE Goto(Req(tab, "getHeader", <<>>))

\* faulty variant of the filter: no row is ever found to match the key
KeepsEveryRow(row, dateIdx, clinicIdx, normalizedTarget, clinicName) == TRUE

\* faulty variant of the filter: every row of the target date is dropped,
\* whatever its clinic
DropsWholeDate(row, dateIdx, clinicIdx, normalizedTarget, clinicName) ==
    normalizePeriod(CellAt(row, dateIdx)) # normalizedTarget

\* the filter of removeRowsForDate: TRUE for a row that is kept
KeepsRow(row, dateIdx, clinicIdx, normalizedTarget, clinicName) ==
    LET rowDate == CellAt(row, dateIdx)
    IN IF normalizePeriod(rowDate) # normalizedTarget THEN TRUE
       ELSE IF clinicIdx = 0 \/ clinicName = Null THEN FALSE
       ELSE ~StrictEq(Str(CellAt(row, clinicIdx)), clinicName)

\* faulty variant: the filter keeps no row
DropsEveryRow(values, date, clinicName) == IF Len(values) = 0 THEN values ELSE <<values[1]>>

\* [header, ...filteredRows] of removeRowsForDate for the values read;
\* the values themselves when it returns before the filter
NewValues(values, date, clinicName) ==
    IF Len(values) = 0 THEN values
    ELSE LET header == values[1]
             dateIdx == findColumnIndex(header, "date")
             clinicIdx == IF clinicName # Null THEN findColumnIndex(header, "clinic") ELSE 0
             normalizedTarget == normalizePeriod(date.v)
             keep(row) == KeepsRow(row, dateIdx, clinicIdx, normalizedTarget, clinicName)
         IN IF dateIdx = 0 THEN values
            ELSE <<header>> \o SelectSeq(Tail(values), keep)

\* error.code === 400 || error.code === 404
IsNotFound(code) == code = BAD_REQUEST \/ code = NOT_FOUND

\* the catch of removeRowsForDate wraps its three calls: TRUE when the error
\* is dropped and pushToSheet goes on
removeRowsForDateCatches(op, code) == op \in {"get", "clear", "update"} /\ IsNotFound(code)

\* the catch around the header read of pushToSheet
pushToSheetCatches(op, code) == op = "getHeader" /\ IsNotFound(code)

\* faulty variant: the header row is appended whatever the header read found
AppendsHeaderAlways(hasExistingData, rows) == rows

valuesToAppend(hasExistingData, rows) == IF hasExistingData THEN Tail(rows) ELSE rows

RECURSIVE NextDestination(_, _)
\* main from its i-th destination on: the first call of the next push, or the end
NextDestination(ds, i) ==
    IF i > 3 THEN Finished
    ELSE IF Len(ds[TabOrder[i]]) > 0 THEN FirstCall(TabOrder[i], ds[TabOrder[i]])
    ELSE NextDestination(ds, i + 1)

\* what follows pushToSheet(tab): ensureDateColumnFormat for the first two tabs
AfterPush(ds, tab) ==
    IF tab # OTHER_TAB /\ findColumnIndex(Texts(ds[tab][1]), "date") # 0
    THEN Goto(Req(tab, "getMeta", <<>>))
    ELSE NextDestination(ds, TabIndex(tab) + 1)

\* faulty variant: the error is logged and main goes on with the next destination
ContinuesAfterError(ds, request) == NextDestination(ds, TabIndex(request.tab) + 1)

\* an error that no catch drops reaches main().catch: process.exit(1)
OnRemoteError(ds, request) == Aborted

\* faulty variant: the credential file is not looked at before the first call
SkipsCredentialCheck(env) == TRUE

\* createServiceAccountAuth returns (TRUE) or throws (FALSE)
createServiceAccountAuth(env) == env = "ok"

\* faulty variant: the summary row is pushed whenever a period is given
PushesWithoutClinic(a) ==
    IF a.reportPeriod = "" THEN <<>>
    ELSE << StrRow(<<"Date", "Clinic", "Medical Complaints",
                     "Administrative Complaints", "Referrals", "Remarks">>),
            << Str(normalizePeriod(a.reportPeriod)), Str(a.clinicName),
               Num("0"), Num("0"), Num("0"), Str(a.remarks) >> >>

\* the rows appendOtherMetricsRow pushes, none when it returns at once
otherRows(a) ==
    IF a.clinicName = "" \/ a.reportPeriod = "" THEN <<>>
    ELSE << StrRow(<<"Date", "Clinic", "Medical Complaints",
                     "Administrative Complaints", "Referrals", "Remarks">>),
            << Str(normalizePeriod(a.reportPeriod)), Str(a.clinicName),
               FiniteOrZero(NumberOf(a.medicalComplaints)),
               FiniteOrZero(NumberOf(a.administrativeComplaints)),
               FiniteOrZero(NumberOf(a.referrals)), Str(a.remarks) >> >>

\* the three datasets main pushes, by tab
formattedRows(a) ==
    LET loaded == loadDatasets(a.files)
        datedRevenueRows ==
            applyClinicColumn(applyDateColumn(loaded.revenueRows, a.reportPeriod), a.clinicName)
        datedDepartmentRows ==
            applyClinicColumn(applyDateColumn(loaded.departmentRows, a.reportPeriod), a.clinicName)
    IN [tab \in Tabs |->
          CASE tab = BASE_REVENUE_TAB ->
                 formatNumericColumns(
                     ensureColumnsHaveValues(datedRevenueRows, <<"doctor name">>),
                     NumericExclusions)
            [] tab = BASE_DEPARTMENT_TAB ->
                 formatNumericColumns(
                     ensureColumnsHaveValues(datedDepartmentRows,
                                             <<"department name", "doctor name">>),
                     NumericExclusions)
            [] OTHER -> otherRows(a)]

(***************************************************************************)
(* The sync runs.  Each run is one process (node sync ...); the inputs of  *)
(* a run are its command line, the CSV files and the .env file.            *)
(***************************************************************************)
Runs == 1..MaxRuns

RevenueCsv == << <<"Doctor Name", "Amount">>, <<"Smith", "10">> >>
RevenueCsv2 == << <<"Doctor Name", "Amount">>, <<"Jones", "20">>, <<"null", "x">> >>
DatedRevenueCsv ==
    << <<"Date", "Doctor Name", "Amount">>, <<"2025-07-01", "Smith", "10">>,
       <<"2025-07-02", "Jones", "20">> >>
DepartmentCsv ==
    << <<"Department ID", "Department Name", "Doctor ID", "Doctor Name", "Visits">>,
       <<"10", "Cardiology", "1", "Smith", "5">> >>

\* node sync <files> --clinic <clinic> --date <period> --medical <medical>,
\* with the .env file in state env
Args(files, clinic, period, medical, env) ==
    [ files |-> files, clinicName |-> clinic, reportPeriod |-> period,
      medicalComplaints |-> medical, administrativeComplaints |-> "",
      referrals |-> "", remarks |-> "", env |-> env ]

NoArgs == Args(<<>>, "", "", "", "ok")

\* the inputs of a run
ArgSets ==
    { NoArgs,
      Args(<<RevenueCsv>>, "Qurtubah", "2025-08", "3", "missing"),
      Args(<<RevenueCsv>>, "Qurtubah", "2025-08", "3", "invalid"),
      Args(<<RevenueCsv>>, "Qurtubah", "2025-08", "3", "ok"),
      Args(<<RevenueCsv2>>, "Qurtubah", "2025-08", "", "ok"),
      Args(<<RevenueCsv, DepartmentCsv>>, "Qurtubah", "2025-09", "", "ok"),
      Args(<<RevenueCsv>>, "12", "2025-08", "", "ok"),
      Args(<<RevenueCsv>>, "", "2025-08", "", "ok"),
      Args(<<RevenueCsv>>, "", "", "", "ok"),
      Args(<<DatedRevenueCsv>>, "", "", "", "ok") }

\* formattedRows, tabulated over the inputs
FormattedRowsOf == [a \in ArgSets |-> formattedRows(a)]

NoData == [tab \in Tabs |-> <<>>]

\* which tabs answer: 200 for a tab that exists, else the code of every call on it
MissingCases ==
    { [tab \in Tabs |-> OK],
      [tab \in Tabs |-> IF tab = BASE_DEPARTMENT_TAB THEN BAD_REQUEST
                        ELSE IF tab = OTHER_TAB THEN NOT_FOUND ELSE OK] }

PureIdle == applied = "" /\ input = <<>> /\ output = <<>>

SyncInit ==
    /\ sheet = [tab \in Tabs |-> <<>>]
    /\ missing = [tab \in Tabs |-> OK]
    /\ status = [r \in Runs |-> "idle"]
    /\ args = [r \in Runs |-> NoArgs]
    /\ datasets = [r \in Runs |-> NoData]
    /\ req = [r \in Runs |-> NoReq]
    /\ newValues = [r \in Runs |-> <<>>]
    /\ log = [r \in Runs |-> <<>>]
    /\ faults = 0
    /\ overlapped = FALSE

Init ==
    /\ sheet = [tab \in Tabs |-> <<>>]
    /\ missing \in MissingCases
    /\ status = [r \in Runs |-> "idle"]
    /\ args = [r \in Runs |-> NoArgs]
    /\ datasets = [r \in Runs |-> NoData]
    /\ req = [r \in Runs |-> NoReq]
    /\ newValues = [r \in Runs |-> <<>>]
    /\ log = [r \in Runs |-> <<>>]
    /\ faults = 0
    /\ overlapped = FALSE
    /\ PureIdle

\* main up to its first await of a remote call
Begin(r, a) ==
    LET loaded == loadDatasets(a.files)
        ds == FormattedRowsOf[a]
        next == IF Len(a.files) = 0 THEN Aborted
                ELSE IF Len(loaded.revenueRows) = 0 /\ Len(loaded.departmentRows) = 0
                THEN Aborted
                ELSE IF ~createServiceAccountAuth(a.env) THEN Aborted
                ELSE NextDestination(ds, 1)
    IN /\ status[r] = "idle"
       /\ \A q \in Runs : q < r => status[q] # "idle"
       /\ args' = [args EXCEPT ![r] = a]
       /\ datasets' = [datasets EXCEPT ![r] = ds]
       /\ status' = [status EXCEPT ![r] = next.status]
       /\ req' = [req EXCEPT ![r] = next.req]
       /\ overlapped' = (overlapped \/ \E q \in Runs : status[q] = "running")
       /\ UNCHANGED <<sheet, missing, newValues, log, faults, pureVars>>

\* a run is started when no other run is going on
Start ==
    \E r \in Runs, a \in ArgSets :
        /\ \A q \in Runs : status[q] # "running"
        /\ Begin(r, a)

\* the codes the spreadsheet may answer a call with.  A not-found or bad-range
\* answer to a call that carries no payload means that the tab (or the
\* spreadsheet) is not there; a call may fail with a server error at any
\* time, and a call that carries rows may also be refused as a bad request.
Answers(request) ==
    IF missing[request.tab] # OK THEN {missing[request.tab]}
    ELSE {OK} \cup (IF faults >= MaxFaults THEN {}
                    ELSE IF request.op \in {"update", "append"}
                    THEN {BAD_REQUEST, SERVER_ERROR}
                    ELSE {SERVER_ERROR})

\* the call of run r returns with `code`; the run goes on with `next`
Returns(r, code, next) ==
    /\ log' = [log EXCEPT ![r] = Append(@, [tab |-> req[r].tab, op |-> req[r].op,
                                            code |-> code])]
    /\ faults' = IF code # OK /\ missing[req[r].tab] = OK THEN faults + 1 ELSE faults
    /\ req' = [req EXCEPT ![r] = next.req]
    /\ status' = [status EXCEPT ![r] = next.status]
    /\ UNCHANGED <<missing, args, datasets, overlapped, pureVars>>

\* faulty variant: the failed call is issued again
RetriesCall(r, code) == Goto(req[r])

\* what a failed call leads to
Fails(r, code) ==
    IF removeRowsForDateCatches(req[r].op, code)
    THEN Goto(Req(req[r].tab, "getHeader", <<>>))
    ELSE OnRemoteError(datasets[r], req[r])

\* removeRowsForDate: values.get of A:ZZ returns
GetValues(r) ==
    /\ status[r] = "running" /\ req[r].op = "get"
    /\ \E code \in Answers(req[r]) :
        LET tab == req[r].tab
            rows == datasets[r][tab]
            values == sheet[tab]
            kept == NewValues(values, targetDate(rows), targetClinic(rows))
        IN IF code = OK
           THEN /\ newValues' = [newValues EXCEPT ![r] = kept]
                /\ Returns(r, code, IF Len(kept) = Len(values)
                                    THEN Goto(Req(tab, "getHeader", <<>>))
                                    ELSE Goto(Req(tab, "clear", <<>>)))
                /\ UNCHANGED sheet
           ELSE /\ Returns(r, code, Fails(r, code))
                /\ UNCHANGED <<sheet, newValues>>

\* removeRowsForDate: values.clear of A:ZZ returns
Clear(r) ==
    /\ status[r] = "running" /\ req[r].op = "clear"
    /\ \E code \in Answers(req[r]) :
        IF code = OK
        THEN /\ sheet' = [sheet EXCEPT ![req[r].tab] = <<>>]
             /\ Returns(r, code, Goto(Req(req[r].tab, "update", newValues[r])))
             /\ UNCHANGED newValues
        ELSE /\ Returns(r, code, Fails(r, code))
             /\ UNCHANGED <<sheet, newValues>>

\* removeRowsForDate: values.update at A1 returns
Update(r) ==
    /\ status[r] = "running" /\ req[r].op = "update"
    /\ \E code \in Answers(req[r]) :
        IF code = OK
        THEN /\ sheet' = [sheet EXCEPT ![req[r].tab] = UpdateAtA1(@, req[r].values)]
             /\ Returns(r, code, Goto(Req(req[r].tab, "getHeader", <<>>)))
             /\ UNCHANGED newValues
        ELSE /\ Returns(r, code, Fails(r, code))
             /\ UNCHANGED <<sheet, newValues>>

\* pushToSheet: values.get of the first row returns
GetHeader(r) ==
    /\ status[r] = "running" /\ req[r].op = "getHeader"
    /\ \E code \in Answers(req[r]) :
        LET tab == req[r].tab
            rows == datasets[r][tab]
            hasExistingData == code = OK /\ Len(FirstRow(sheet[tab])) > 0
            toAppend == valuesToAppend(hasExistingData, rows)
        IN /\ IF code = OK \/ pushToSheetCatches("getHeader", code)
              THEN Returns(r, code, IF Len(toAppend) = 0 THEN AfterPush(datasets[r], tab)
                                    ELSE Goto(Req(tab, "append", toAppend)))
              ELSE Returns(r, code, OnRemoteError(datasets[r], req[r]))
           /\ UNCHANGED <<sheet, newValues>>

\* pushToSheet: values.append returns
AppendRows(r) ==
    /\ status[r] = "running" /\ req[r].op = "append"
    /\ \E code \in Answers(req[r]) :
        IF code = OK
        THEN /\ sheet' = [sheet EXCEPT ![req[r].tab] =
                             AppendBelow(@, Displayed(req[r].values))]
             /\ Returns(r, code, AfterPush(datasets[r], req[r].tab))
             /\ UNCHANGED newValues
        ELSE /\ Returns(r, code, OnRemoteError(datasets[r], req[r]))
             /\ UNCHANGED <<sheet, newValues>>

\* ensureDateColumnFormat: spreadsheets.get of the sheet properties returns.
\* The call names no tab: it fails only when the spreadsheet is not there.
GetMeta(r) ==
    /\ status[r] = "running" /\ req[r].op = "getMeta"
    /\ \E code \in (IF missing[req[r].tab] = NOT_FOUND THEN {NOT_FOUND}
                    ELSE {OK} \cup IF faults >= MaxFaults THEN {} ELSE {SERVER_ERROR}) :
        LET tab == req[r].tab
            sheetIdFound == missing[tab] = OK
        IN /\ IF code # OK THEN Returns(r, code, OnRemoteError(datasets[r], req[r]))
              ELSE IF sheetIdFound THEN Returns(r, code, Goto(Req(tab, "batchUpdate", <<>>)))
              ELSE Returns(r, code, NextDestination(datasets[r], TabIndex(tab) + 1))
           /\ UNCHANGED <<sheet, newValues>>

\* ensureDateColumnFormat: batchUpdate (a cell format, no cell value) returns
BatchUpdate(r) ==
    /\ status[r] = "running" /\ req[r].op = "batchUpdate"
    /\ \E code \in Answers(req[r]) :
        /\ IF code = OK
           THEN Returns(r, code, NextDestination(datasets[r], TabIndex(req[r].tab) + 1))
           ELSE Returns(r, code, OnRemoteError(datasets[r], req[r]))
        /\ UNCHANGED <<sheet, newValues>>

Step(r) ==
    \/ GetValues(r)
    \/ Clear(r)
    \/ Update(r)
    \/ GetHeader(r)
    \/ AppendRows(r)
    \/ GetMeta(r)
    \/ BatchUpdate(r)

Next == Start \/ \E r \in Runs : Step(r)

Spec == Init /\ [][Next]_vars

(***************************************************************************)
(* Two sync runs started side by side for one (date, clinic) key: the      *)
(* second process starts while the first awaits a remote call.             *)
(***************************************************************************)
ConcArgs == { Args(<<RevenueCsv>>, "Qurtubah", "2025-08", "3", "ok") }

StartConc == \E r \in Runs, a \in ConcArgs : Begin(r, a)

NextConc == StartConc \/ \E r \in Runs : Step(r)

SpecConc == Init /\ [][NextConc]_vars

(***************************************************************************)
(* The CSV codec on its own: a row is encoded the way convertHtmlToCsv     *)
(* writes it and the line is decoded the way parseCsv reads it.            *)
(***************************************************************************)
CsvAlphabet == {"a", ",", "\"", " ", "\\"}

\* cells as the extractor leaves them: not empty, no surrounding white space
CsvCells == {c \in StringsUpTo(CsvAlphabet, MaxCsvLen) : c # "" /\ Trim(c) = c}

ExampleRow == <<"a", "b,c", "d\"e">>

CsvRows == {ExampleRow} \cup {<<c>> : c \in CsvCells} \cup {<<c, d>> : c, d \in CsvCells}

InitCsv ==
    /\ SyncInit
    /\ applied = ""
    /\ input \in CsvRows
    /\ output = [line |-> "", cells |-> <<>>]

EncodeRow ==
    /\ applied = ""
    /\ applied' = "encodeRow"
    /\ output' = [output EXCEPT !.line = encodeRow(input)]
    /\ UNCHANGED <<input, syncVars>>

DecodeLine ==
    /\ applied = "encodeRow"
    /\ applied' = "splitCsvLine"
    /\ output' = [output EXCEPT !.cells = splitCsvLine(output.line)]
    /\ UNCHANGED <<input, syncVars>>

NextCsv == EncodeRow \/ DecodeLine

SpecCsv == InitCsv /\ [][NextCsv]_vars

(***************************************************************************)
(* The table extractor.  An HTML text is a sequence of tokens, each a tag  *)
(* ("<tr>", "<td colspan=2>", "</td>", "<br>") or a run of text without    *)
(* "<"; inside a token the text is processed character by character.       *)
(***************************************************************************)
\* whether s starts with the lower-case text p, letters compared without case
StartsWith(s, p) == Len(s) >= Len(p) /\ ToLowerCase(SubSeq(s, 1, Len(p))) = p

RECURSIVE PrefixLen(_, _)
\* length of the longest prefix of s made of characters of set
PrefixLen(s, set) ==
    IF s # "" /\ Head(s) \in set THEN 1 + PrefixLen(Tail(s), set) ELSE 0

RECURSIVE regexMatches(_, _, _)
\* text.match(/<open...>[\s\S]*?<close>/gi): from the first tag that starts
\* with one of opens to the first closing tag of closes after it, and so on
\* in what follows the match
regexMatches(tokens, opens, closes) ==
    LET starts == {i \in 1..Len(tokens) : \E o \in opens : StartsWith(tokens[i], o)}
        ends == {j \in 1..Len(tokens) :
                    ToLowerCase(tokens[j]) \in closes /\ \E i \in starts : i < j}
        last == CHOOSE j \in ends : \A k \in ends : j <= k
    IN IF ends = {} THEN <<>>
       ELSE <<SubSeq(tokens, CHOOSE i \in starts : \A k \in starts : i <= k, last)>>
            \o regexMatches(SubSeq(tokens, last + 1, Len(tokens)), opens, closes)

htmlEntities ==
    [e \in {"nbsp", "amp", "lt", "gt", "quot", "apos"} |->
        CASE e = "nbsp" -> " " [] e = "amp" -> "&" [] e = "lt" -> "<"
          [] e = "gt" -> ">" [] e = "quot" -> "\"" [] e = "apos" -> "'"]

RECURSIVE decodeEntities(_)
decodeEntities(value) ==
    LET \* length of the entity name at the start of rest when ';' follows it,
        \* else 0: the (#x?[0-9a-f]+|\w+); of the pattern
        entityLen(rest) ==
            LET hex == Digits \cup {"a", "b", "c", "d", "e", "f",
                                    "A", "B", "C", "D", "E", "F"}
                x == IF Len(rest) >= 2 /\ CharAt(rest, 2) \in {"x", "X"} THEN 1 ELSE 0
                n == IF rest # "" /\ Head(rest) = "#"
                     THEN PrefixLen(SubSeq(rest, 2 + x, Len(rest)), hex)
                     ELSE PrefixLen(rest, Letters \cup Digits \cup {"_"})
                name == IF rest # "" /\ Head(rest) = "#" THEN 1 + x + n ELSE n
            IN IF n > 0 /\ name < Len(rest) /\ CharAt(rest, name + 1) = ";"
               THEN name ELSE 0
        \* String.fromCharCode(parseInt(...)) for the character references of
        \* the model's texts
        fromCharCode == [e \in {"#32", "#65", "#x41"} |-> IF e = "#32" THEN " " ELSE "A"]
        replacement(lower) ==
            IF lower \in DOMAIN htmlEntities THEN htmlEntities[lower]
            ELSE IF lower \in DOMAIN fromCharCode THEN fromCharCode[lower]
            ELSE "&" \o lower \o ";"
    IN IF value = "" THEN ""
       ELSE IF Head(value) = "&" /\ entityLen(Tail(value)) > 0
       THEN replacement(ToLowerCase(SubSeq(value, 2, 1 + entityLen(Tail(value)))))
            \o decodeEntities(SubSeq(value, 3 + entityLen(Tail(value)), Len(value)))
       ELSE Head(value) \o decodeEntities(Tail(value))

\* cellHtml is the opening tag, the inner tokens and the closing tag
cleanCell(cellHtml) ==
    LET RECURSIVE tagsToSpaces(_)
        \* innerHtml.replace(/<[^>]+>/g, ' ')
        tagsToSpaces(tokens) ==
            IF tokens = <<>> THEN ""
            ELSE (IF StartsWith(Head(tokens), "<") THEN " " ELSE Head(tokens))
                 \o tagsToSpaces(Tail(tokens))
        RECURSIVE collapseWhiteSpace(_)
        \* text.replace(/\s+/g, ' ')
        collapseWhiteSpace(text) ==
            IF text = "" THEN ""
            ELSE IF Head(text) \in WhiteSpace
            THEN " " \o collapseWhiteSpace(TrimStart(text))
            ELSE Head(text) \o collapseWhiteSpace(Tail(text))
    IN decodeEntities(Trim(collapseWhiteSpace(
           tagsToSpaces(SubSeq(cellHtml, 2, Len(cellHtml) - 1)))))

\* the pattern is looked for in the opening tag; the texts of the model hold
\* no "colspan" elsewhere
extractSpan(cellHtml) ==
    LET RECURSIVE spanIn(_)
        \* the digits of the first colspan\s*=\s*["']?(\d+) in text, "" when none
        spanIn(text) ==
            LET afterName == TrimStart(SubSeq(text, 8, Len(text)))
                afterEq == IF afterName = "" THEN "" ELSE TrimStart(Tail(afterName))
                value == IF afterEq # "" /\ Head(afterEq) \in {"\"", "'"}
                         THEN Tail(afterEq) ELSE afterEq
            IN IF text = "" THEN ""
               ELSE IF StartsWith(text, "colspan") /\ afterName # ""
                       /\ Head(afterName) = "=" /\ PrefixLen(value, Digits) > 0
               THEN SubSeq(value, 1, PrefixLen(value, Digits))
               ELSE spanIn(Tail(text))
    IN IF spanIn(Head(cellHtml)) # "" /\ ParseNat(spanIn(Head(cellHtml)), 0) > 1
       THEN ParseNat(spanIn(Head(cellHtml)), 0) ELSE 1

\* the cells that are not empty; extractRows does not push a row without cells
compressRow(row) == SelectSeq(row, LAMBDA cell : cell # "")

extractRows(html) ==
    LET RECURSIVE cellsOf(_)
        \* cellMatches.forEach: the cell's text, then colspan - 1 empty cells
        cellsOf(cellMatches) ==
            IF cellMatches = <<>> THEN <<>>
            ELSE <<cleanCell(Head(cellMatches))>>
                 \o [i \in 1..(extractSpan(Head(cellMatches)) - 1) |-> ""]
                 \o cellsOf(Tail(cellMatches))
        compactRow(rowHtml) ==
            compressRow(cellsOf(regexMatches(rowHtml, {"<td", "<th"}, {"</td>", "</th>"})))
        RECURSIVE rowsOf(_)
        \* rowMatches.forEach
        rowsOf(rowMatches) ==
            IF rowMatches = <<>> THEN <<>>
            ELSE (IF compactRow(Head(rowMatches)) = <<>> THEN <<>>
                  ELSE <<compactRow(Head(rowMatches))>>)
                 \o rowsOf(Tail(rowMatches))
    IN rowsOf(regexMatches(html, {"<tr"}, {"</tr>"}))

(***************************************************************************)
(* The normalizer on its own.                                              *)
(***************************************************************************)
MaxTableRows == 4

\* rows as the extractor leaves them
NormRows ==
    { <<"10 - Cardiology">>,
      <<"20 -">>,
      <<"Doctor Name", "Visits">>,
      <<"Doctor Name", "Visits", "Fees">>,
      <<"Doctor Name">>,
      <<"1 - Smith", "5">>,
      <<"null", "4">>,
      <<"Smith", "2">>,
      <<"7", "3">>,
      <<"5">>,
      <<"Grand Totals:", "5">>,
      <<"TOTAL", "9">> }

RECURSIVE TablesUpTo(_)
TablesUpTo(n) ==
    IF n = 0 THEN {<<>>}
    ELSE LET shorter == TablesUpTo(n - 1)
         IN shorter \cup {Append(t, r) : t \in shorter, r \in NormRows}

InitNorm ==
    /\ SyncInit
    /\ applied = ""
    /\ input \in TablesUpTo(MaxTableRows)
                 \cup { << <<"10 - Cardiology">>, <<"Doctor Name", "Visits">> >> \o t :
                            t \in TablesUpTo(MaxTableRows - 1) }
    /\ output = <<>>

Normalize ==
    /\ applied = ""
    /\ applied' = "normalizeRows"
    /\ output' = normalizeRows(input)
    /\ UNCHANGED <<input, syncVars>>

NextNorm == Normalize

SpecNorm == InitNorm /\ [][NextNorm]_vars

(***************************************************************************)
(* The two conversions of an HTML file: the conversion entry point of      *)
(* html-to-csv.js and the in-process conversion of the upload form.        *)
(***************************************************************************)
MaxHtmlLen == 5

HtmlTokens ==
    {"<tr>", "</tr>", "<td>", "<td colspan=2>", "</td>", "<br>", "A", "&nbsp;"}

RECURSIVE HtmlUpTo(_)
HtmlUpTo(n) ==
    IF n = 0 THEN {<<>>}
    ELSE LET shorter == HtmlUpTo(n - 1)
         IN shorter \cup {Append(h, t) : h \in shorter, t \in HtmlTokens}

\* a department report (department row, metrics header, doctor row, totals
\* row) and a plain table that ends with a totals row
DepartmentReportHtml ==
    << "<tr>", "<td colspan=2>", "10 - Cardiology", "</td>", "</tr>",
       "<tr>", "<th>", "Doctor Name", "</th>", "<th>", "Visits", "</th>", "</tr>",
       "<tr>", "<td>", "1 - Smith", "</td>", "<td>", "5", "</td>", "</tr>",
       "<tr>", "<td>", "Total", "</td>", "<td>", "5", "</td>", "</tr>" >>

RevenueReportHtml ==
    << "<tr>", "<th>", "Doctor Name", "</th>", "<th>", "Amount", "</th>", "</tr>",
       "<tr>", "<td>", "Smith", "</td>", "<td>", "10", "</td>", "</tr>",
       "<tr>", "<td>", "Grand Totals:", "</td>", "<td>", "10", "</td>", "</tr>" >>

InitHtml ==
    /\ SyncInit
    /\ applied = ""
    /\ input \in HtmlUpTo(MaxHtmlLen) \cup {DepartmentReportHtml, RevenueReportHtml}
    /\ output = <<>>

\* convertHtmlToCsv of html-to-csv.js: a file that normalizes to no row is
\* skipped with a warning, no file is written and nothing is thrown; the
\* file written holds rows.map((row) => row.map(csvEscape).join(',')).join('\n')
ConvertFile ==
    /\ applied = ""
    /\ applied' = "convertHtmlToCsv"
    /\ output' = IF normalizeRows(extractRows(input)) = <<>>
                 THEN [result |-> "skipped", csv |-> ""]
                 ELSE [result |-> "written",
                       csv |-> Join([i \in 1..Len(normalizeRows(extractRows(input))) |->
                                       encodeRow(normalizeRows(extractRows(input))[i])],
                                    "\n")]
    /\ UNCHANGED <<input, syncVars>>

\* convertHtmlToCsv of the form server: throws when no row was extracted,
\* writes the extracted rows otherwise
ConvertUpload ==
    /\ applied = ""
    /\ applied' = "uploadConvertHtmlToCsv"
    /\ output' = IF extractRows(input) = <<>>
                 THEN [result |-> "error", csv |-> ""]
                 ELSE [result |-> "written",
                       csv |-> Join([i \in 1..Len(extractRows(input)) |->
                                       encodeRow(extractRows(input)[i])], "\n")]
    /\ UNCHANGED <<input, syncVars>>

NextHtml == ConvertFile \/ ConvertUpload

SpecHtml == InitHtml /\ [][NextHtml]_vars

(***************************************************************************)
(* The conversion batch: main of html-to-csv.js over a list of files.      *)
(* output holds the index of the next file, the sibling .csv written for   *)
(* each file (none: ""), the files reported as failed, the files warned    *)
(* about, and process.exitCode.                                            *)
(***************************************************************************)
MaxBatch == 3

\* what convertHtmlToCsv does with the normalized rows of a file
csvFileOf(normalized) ==
    IF normalized = <<>> THEN [result |-> "skipped", csv |-> ""]
    ELSE [result |-> "written",
          csv |-> Join([i \in 1..Len(normalized) |-> encodeRow(normalized[i])], "\n")]

convertHtmlToCsv(html) == csvFileOf(normalizeRows(extractRows(html)))

Unreadable == [readable |-> FALSE, html |-> <<>>]
Readable(html) == [readable |-> TRUE, html |-> html]

\* a file that cannot be read, an empty page, a one-row table, a table of a
\* totals row only, a two-row table with a quoted cell
BatchFiles ==
    { Unreadable,
      Readable(<<>>),
      Readable(<<"<tr>", "<td>", "A", "</td>", "</tr>">>),
      Readable(<<"<tr>", "<td>", "Total", "</td>", "<td>", "9", "</td>", "</tr>">>),
      Readable(<<"<tr>", "<td>", "a,b", "</td>", "</tr>", "<tr>", "<td>", "5", "</td>", "</tr>">>) }

RECURSIVE BatchesUpTo(_)
BatchesUpTo(n) ==
    IF n = 0 THEN {<<>>}
    ELSE LET fewer == BatchesUpTo(n - 1)
         IN fewer \cup {Append(files, f) : files \in fewer, f \in BatchFiles}

InitBatch ==
    /\ SyncInit
    /\ applied = ""
    /\ input \in BatchesUpTo(MaxBatch)
    /\ output = <<>>

\* main up to the loop: exit(1) when there is no file
Main ==
    /\ applied = ""
    /\ applied' = IF Len(input) = 0 THEN "exit" ELSE "main"
    /\ output' = [next |-> 1, written |-> [i \in 1..Len(input) |-> ""],
                  failed |-> {}, warned |-> {},
                  exitCode |-> IF Len(input) = 0 THEN 1 ELSE 0]
    /\ UNCHANGED <<input, syncVars>>

\* faulty variant: the error leaves the loop
AbortsBatch(out, i, last) == [out EXCEPT !.failed = @ \cup {i}, !.exitCode = 1, !.next = last + 1]

\* the catch of the loop body: the failure is reported, exitCode becomes 1
OnConvertError(out, i, last) == [out EXCEPT !.failed = @ \cup {i}, !.exitCode = 1, !.next = i + 1]

\* one turn of files.forEach: readFileSync throws for a file that cannot be
\* read; a file without normalized rows is warned about and nothing is written
ConvertNext ==
    /\ applied = "main" /\ output.next <= Len(input)
    /\ output' =
          IF ~input[output.next].readable
          THEN OnConvertError(output, output.next, Len(input))
          ELSE IF convertHtmlToCsv(input[output.next].html).result = "skipped"
          THEN [output EXCEPT !.warned = @ \cup {output.next}, !.next = @ + 1]
          ELSE [output EXCEPT !.written[output.next] =
                                  convertHtmlToCsv(input[output.next].html).csv,
                              !.next = @ + 1]
    /\ UNCHANGED <<applied, input, syncVars>>

\* main returns: the process ends with process.exitCode
Exit ==
    /\ applied = "main" /\ output.next > Len(input)
    /\ applied' = "exit"
    /\ UNCHANGED <<input, output, syncVars>>

NextBatch == Main \/ ConvertNext \/ Exit

SpecBatch == InitBatch /\ [][NextBatch]_vars

(***************************************************************************)
(* The preparation of a dataset in main, and normalizePeriod on its own.   *)
(***************************************************************************)
MaxSerial == 800
MaxPeriodLen == 3
MaxDataRows == 2

PeriodTexts ==
    {NatToString(n) : n \in 0..MaxSerial}
    \cup StringsUpTo({"4", "0", ".", " ", "-", "a"}, MaxPeriodLen)
    \cup {"2025-08", "2025-08-15", "45870", "45870.0", "45870.5", "36585", " 2025-08",
          "2025-8", "2025-08-1", "Aug 2025 ", "20250801"}

PreparedHeaders ==
    { <<"Doctor Name", "Amount">>,
      <<"Date", "Doctor Name", "Amount">>,
      <<"Amount", "clinic", "">> }

RECURSIVE RowsOver(_, _)
\* at most n data rows, each of width cells out of "", "5" and "x"
RowsOver(width, n) ==
    IF n = 0 THEN {<<>>}
    ELSE LET fewer == RowsOver(width, n - 1)
         IN fewer \cup {Append(rows, r) : rows \in fewer, r \in [1..width -> {"", "5", "x"}]}

MaxFiles == 3

\* files as parseCsv returns them; a file of blank lines only has no rows
ParsedFiles ==
    { <<>>, RevenueCsv, RevenueCsv2, DepartmentCsv, << <<"Amount">> >>,
      << <<"Doctor ID", " DEPARTMENT id ">>, <<"1", "20">> >> }

RECURSIVE FilesUpTo(_)
FilesUpTo(n) ==
    IF n = 0 THEN {<<>>}
    ELSE LET fewer == FilesUpTo(n - 1)
         IN fewer \cup {Append(files, f) : files \in fewer, f \in ParsedFiles}

InitFn ==
    /\ SyncInit
    /\ applied = ""
    /\ \/ input \in [kind : {"period"}, period : PeriodTexts]
       \/ \E h \in PreparedHeaders, p \in {"", "2025-08"}, c \in {"", "12"} :
             \E d \in RowsOver(Len(h), MaxDataRows) :
                input = [kind |-> "rows", rows |-> <<h>> \o d, period |-> p, clinic |-> c]
       \/ input \in [kind : {"files"}, files : FilesUpTo(MaxFiles)]
    /\ output = <<>>

NormalizePeriod ==
    /\ applied = "" /\ input.kind = "period"
    /\ applied' = "normalizePeriod"
    /\ output' = normalizePeriod(input.period)
    /\ UNCHANGED <<input, syncVars>>

\* main, from the loaded rows of one shape to the rows handed to pushToSheet
PrepareRows ==
    /\ applied = "" /\ input.kind = "rows"
    /\ applied' = "formatNumericColumns"
    /\ LET dated == applyClinicColumn(applyDateColumn(input.rows, input.period),
                                      input.clinic)
       IN output' = [dated |-> dated,
                     normalized |-> ensureColumnsHaveValues(dated, <<"doctor name">>),
                     formatted |-> formatNumericColumns(
                                       ensureColumnsHaveValues(dated, <<"doctor name">>),
                                       NumericExclusions)]
    /\ UNCHANGED <<input, syncVars>>

LoadDatasets ==
    /\ applied = "" /\ input.kind = "files"
    /\ applied' = "loadDatasets"
    /\ output' = loadDatasets(input.files)
    /\ UNCHANGED <<input, syncVars>>

NextFn == NormalizePeriod \/ PrepareRows \/ LoadDatasets

SpecFn == InitFn /\ [][NextFn]_vars

(***************************************************************************)
(* Properties of the sync runs.                                            *)
(***************************************************************************)
\* the calls run r has issued so far, in order: the returned ones, then the
\* awaited one
IssuedCalls(r) ==
    [i \in 1..Len(log[r]) |-> [tab |-> log[r][i].tab, op |-> log[r][i].op]]
    \o (IF req[r].op = "none" THEN <<>> ELSE << [tab |-> req[r].tab, op |-> req[r].op] >>)

\* every call of run r so far was answered with 200
AllOk(r) == \A i \in 1..Len(log[r]) : log[r][i].code = OK

\* a returned call whose error no catch drops
Fatal(call) ==
    /\ call.code # OK
    /\ ~removeRowsForDateCatches(call.op, call.code)
    /\ ~pushToSheetCatches(call.op, call.code)

\* the data calls of a destination's sequence
DataOps == {"get", "clear", "update", "getHeader", "append"}

\* run r has appended to tab
Appended(r, tab) ==
    \E i \in 1..Len(log[r]) : log[r][i] = [tab |-> tab, op |-> "append", code |-> OK]

\* the rows a tab shows for the values written
Shown(values) == Canon(Displayed(values))

IsSuffix(s, t) == Len(s) <= Len(t) /\ SubSeq(t, Len(t) - Len(s) + 1, Len(t)) = s

\* the data rows of a dataset all carry one non-empty Date and one non-empty Clinic
Keyed(rows) ==
    /\ Len(rows) > 1
    /\ LET d == findColumnIndex(Texts(rows[1]), "date")
           c == findColumnIndex(Texts(rows[1]), "clinic")
       IN /\ d # 0 /\ c # 0
          /\ \A i \in 2..Len(rows) :
                /\ d <= Len(rows[i]) /\ c <= Len(rows[i])
                /\ rows[i][d].v # "" /\ rows[i][d].v = rows[2][d].v
                /\ rows[i][c].v # "" /\ rows[i][c].v = rows[2][c].v

\* the key of a displayed row under a header: normalized Date, Clinic
KeyOf(header, row) ==
    [date |-> normalizePeriod(CellAt(row, findColumnIndex(header, "date"))),
     clinic |-> CellAt(row, findColumnIndex(header, "clinic"))]

\* the data rows of a displayed table that carry a key
RowsOfKey(table, key) ==
    LET hasKey(row) == KeyOf(table[1], row) = key
    IN SelectSeq(Tail(table), hasKey)

\* C1: from an empty destination, two completed runs with the same dataset D,
\* whose data rows all carry one non-empty Date and Clinic, leave the
\* destination with D's header row and exactly len(D.rows) data rows.
IdempotentUpsert ==
    \A tab \in Tabs :
        ( /\ status[1] = "done" /\ status[2] = "done"
          /\ AllOk(1) /\ AllOk(2)
          /\ datasets[1][tab] = datasets[2][tab]
          /\ Keyed(datasets[1][tab]) )
        => /\ Len(sheet[tab]) = Len(datasets[1][tab])
           /\ sheet[tab][1] = Texts(datasets[1][tab][1])

\* C2: after completed, non-overlapping runs the rows of the destination that
\* carry the key (Date, Clinic) of the most recent run are exactly the rows
\* that run wrote: no row of an earlier run for the key remains.
ReplaceByKey ==
    \A tab \in Tabs, r \in Runs :
        LET written == Shown(datasets[r][tab])
        IN ( /\ \A q \in Runs : status[q] = (IF q <= r THEN "done" ELSE "idle")
             /\ Keyed(datasets[r][tab])
             /\ Len(sheet[tab]) > 0 /\ sheet[tab][1] = written[1] )
           => LET key == KeyOf(written[1], written[2])
              IN RowsOfKey(sheet[tab], key) = Tail(written)

\* a displayed row that is the header row of some dataset of the tab
IsHeaderRow(tab, row) ==
    \E a \in ArgSets :
        /\ Len(FormattedRowsOf[a][tab]) > 0
        /\ row = Texts(FormattedRowsOf[a][tab][1])

\* C3: pushToSheet appends the whole dataset, header included, when the read
\* of the first row returned nothing, and the data rows alone otherwise; so a
\* destination that is not empty has one header row, and it is its first row.
HeaderWriteRule ==
    /\ \A r \in Runs :
          req[r].op = "append" =>
              LET found == /\ log[r][Len(log[r])].code = OK
                           /\ FirstRow(sheet[req[r].tab]) # <<>>
                  rows == datasets[r][req[r].tab]
              IN req[r].values = (IF found THEN Tail(rows) ELSE rows)
    /\ \A tab \in Tabs :
          Len(sheet[tab]) > 0 =>
              /\ IsHeaderRow(tab, sheet[tab][1])
              /\ \A i \in 2..Len(sheet[tab]) : ~IsHeaderRow(tab, sheet[tab][i])

\* two completed runs have appended to one tab, the second below the header
\* and the rows of the first
HeaderWrittenOnce ==
    \E tab \in Tabs :
        /\ status[1] = "done" /\ status[2] = "done"
        /\ Appended(1, tab) /\ Appended(2, tab)
        /\ Len(sheet[tab]) = Len(datasets[1][tab]) + Len(datasets[2][tab]) - 1

\* C4: a run goes on only after a 404 or 400 answer to a read that looks up
\* the existing rows or the existing header; any other failed call is the
\* last call of its run, and the run has failed.
OnlyLookupErrorsTolerated ==
    \A r \in Runs : \A i \in 1..Len(log[r]) :
        ( /\ log[r][i].code # OK
          /\ ~( /\ log[r][i].op \in {"get", "getHeader"}
                /\ log[r][i].code \in {NOT_FOUND, BAD_REQUEST} ) )
        => (i = Len(log[r]) /\ status[r] = "failed")

\* C5: the calls of a run go through the tabs in the order Revenue,
\* Department Wise, Other; a call whose error no catch drops ends the run: no
\* call is issued for a later tab, and every earlier tab that had rows to
\* push ends with the rows of the run below its header.
FixedOrderAbort ==
    \A r \in Runs :
        LET calls == IssuedCalls(r)
        IN /\ \A i, j \in 1..Len(calls) :
                 i < j => TabIndex(calls[i].tab) <= TabIndex(calls[j].tab)
           /\ \A i \in 1..Len(log[r]) :
                 Fatal(log[r][i]) =>
                    /\ status[r] = "failed"
                    /\ \A j \in 1..Len(calls) :
                          TabIndex(calls[j].tab) <= TabIndex(log[r][i].tab)
                    /\ (\A q \in Runs : q > r => status[q] = "idle") =>
                          \A k \in 1..(TabIndex(log[r][i].tab) - 1) :
                             Len(datasets[r][TabOrder[k]]) > 0 =>
                                /\ Len(sheet[TabOrder[k]]) > 0
                                /\ IsHeaderRow(TabOrder[k], sheet[TabOrder[k]][1])
                                /\ IsSuffix(Tail(Shown(datasets[r][TabOrder[k]])),
                                            Tail(sheet[TabOrder[k]]))

\* a run has failed on Department Wise with rows left to push to Other,
\* after it has pushed its rows to Revenue
AbortedAtDepartment ==
    \E r \in Runs :
        /\ status[r] = "failed" /\ Len(log[r]) > 0
        /\ log[r][Len(log[r])].tab = BASE_DEPARTMENT_TAB
        /\ Fatal(log[r][Len(log[r])])
        /\ Appended(r, BASE_REVENUE_TAB)
        /\ Len(datasets[r][OTHER_TAB]) > 0

\* C6: runs for one key that did not overlap leave each tab with the header
\* and the rows of one run; a destination that holds the key's rows twice, or
\* lacks rows a run wrote, is left only by runs whose calls interleaved (and
\* is left by some: RowsDuplicated).
AnomalyOnlyWhenOverlapped ==
    \A tab \in Tabs :
        ( /\ \E r \in Runs : status[r] = "done" /\ Appended(r, tab)
          /\ \A q \in Runs : status[q] \in {"idle", "done"} /\ AllOk(q)
          /\ ~overlapped )
        => \E r \in Runs : status[r] = "done" /\ sheet[tab] = Shown(datasets[r][tab])

\* two runs for one key whose calls interleaved have both completed, every
\* call answered with 200, and Revenue holds the rows of the key twice
RowsDuplicated ==
    /\ overlapped
    /\ \A r \in {1, 2} : status[r] = "done" /\ AllOk(r) /\ args[r] \in ConcArgs
    /\ Len(RowsOfKey(sheet[BASE_REVENUE_TAB],
                     [date |-> "2025-08-01", clinic |-> "Qurtubah"]))
         = 2 * Len(Tail(datasets[1][BASE_REVENUE_TAB]))

\* C7: a run whose credential file is missing or is no JSON fails and issues
\* no remote call.
CredentialsBeforeCalls ==
    \A r \in Runs :
        args[r].env \in {"missing", "invalid"} =>
            status[r] = "failed" /\ log[r] = <<>> /\ req[r] = NoReq

\* a run with rows to push has failed on a missing credential file
FailedOnCredentials ==
    \E r \in Runs :
        /\ args[r].env = "missing" /\ Len(datasets[r][BASE_REVENUE_TAB]) > 0
        /\ status[r] = "failed" /\ log[r] = <<>>

\* within one run no step of a tab's sequence is issued twice, and a call is
\* issued only when the one before it has returned
NoRetryNoOverlap ==
    \A r \in Runs :
        LET calls == IssuedCalls(r)
        IN /\ \A i, j \in 1..Len(calls) : i # j => calls[i] # calls[j]
           /\ (status[r] = "running") = (req[r] # NoReq)
           /\ Len(calls) <= Len(log[r]) + 1

CsvRoundTrip ==
    applied = "splitCsvLine" => output.cells = input

\* C10: no totals row (first cell total, totals, grand total or grand totals
\* once colons are removed, trimmed and lower-cased) is in normalizeRows' output.
TotalsSuppressed ==
    applied = "normalizeRows" => \A i \in 1..Len(output) : ~isTotalsRow(output[i])


CanonicalLead == <<"Department ID", "Department Name", "Doctor ID", "Doctor Name">>

IsCanonicalHeader(row) == Len(row) >= 4 /\ SubSeq(row, 1, 4) = CanonicalLead

DeptModeApplied == applied = "normalizeRows" /\ looksLikeDepartmentReport(input)

\* C11: whenever department-grouped normalization applies, the canonical
\* header row is the first row of the output and no later row is one.
CanonicalHeaderFirst ==
    DeptModeApplied =>
        /\ Len(output) > 0
        /\ IsCanonicalHeader(output[1])
        /\ \A i \in 2..Len(output) : ~IsCanonicalHeader(output[i])

\* C12: in the output of department-grouped normalization every data row has
\* as many cells as the header row.
RowsAsLongAsHeader ==
    (DeptModeApplied /\ Len(output) > 0 /\ IsCanonicalHeader(output[1])) =>
        \A i \in 2..Len(output) : Len(output[i]) = Len(output[1])


\* the greatest member of a set of row numbers, 0 when it is empty
LastOf(S) == IF S = {} THEN 0 ELSE CHOOSE i \in S : \A k \in S : k <= i

LastDepartmentBefore(j) == LastOf({i \in 1..(j - 1) : isDepartmentRow(input[i])})

LastDoctorHeaderBefore(j) == LastOf({i \in 1..(j - 1) : isDoctorHeader(input[i])})

\* the row the claim has input row j emitted as
EmittedAs(j) ==
    LET dept == parseDepartment(input[LastDepartmentBefore(j)][1])
        labels == Tail(input[LastDoctorHeaderBefore(j)])
        whole == Len(input[j]) = Len(labels)
        doctor == parseDoctor(IF whole THEN "" ELSE input[j][1])
    IN <<dept.id, dept.name, doctor.id, doctor.name>>
       \o (IF whole THEN input[j] ELSE Tail(input[j]))

\* input rows that can be data rows: under a department and a metrics header
CanSurvive ==
    {j \in 1..Len(input) :
        /\ ~isDepartmentRow(input[j]) /\ ~isDoctorHeader(input[j])
        /\ LastDepartmentBefore(j) > 0 /\ LastDoctorHeaderBefore(j) > 0}

RECURSIVE RowsOfSet(_)
\* EmittedAs of the rows of S, in input order
RowsOfSet(S) ==
    IF S = {} THEN <<>>
    ELSE LET j == CHOOSE i \in S : \A k \in S : i <= k
         IN <<EmittedAs(j)>> \o RowsOfSet(S \ {j})

DataRowsOf(rows) ==
    IF Len(rows) > 0 /\ IsCanonicalHeader(rows[1]) THEN Tail(rows) ELSE rows

CardiologyExample ==
    << <<"10 - Cardiology">>, <<"Doctor Name", "Visits">>, <<"1 - Smith", "5">> >>

CardiologyNormalized ==
    << CanonicalLead \o <<"Visits">>, <<"10", "Cardiology", "1", "Smith", "5">> >>

\* C13: in department-grouped mode the data rows of the output are, in input
\* order, some of the input's rows under a department and a metrics header,
\* each as [departmentId, departmentName, doctorId, doctorName, ...metrics] of
\* the latest department row, a row as long as the metrics header being all
\* metrics; the Cardiology example gives the header and 10,Cardiology,1,Smith,5.
DataRowShape ==
    (DeptModeApplied /\ output # input) =>
        /\ \E S \in SUBSET CanSurvive : DataRowsOf(output) = RowsOfSet(S)
        /\ input = CardiologyExample => output = CardiologyNormalized

CardiologyNormalizedReached ==
    applied = "normalizeRows" /\ input = CardiologyExample
    /\ output = CardiologyNormalized


\* the id and name the claim gives for an identifier cell
ClaimedLabel(cell) ==
    IF cell = "" \/ ToLowerCase(cell) \in {"unknown", "null", "undefined"}
    THEN [id |-> UNKNOWN_LABEL, name |-> UNKNOWN_LABEL]
    ELSE IF AllChars(cell, Digits) THEN [id |-> cell, name |-> UNKNOWN_LABEL]
    ELSE IF parseIdAndName(cell).ok
    THEN [id |-> parseIdAndName(cell).id,
          name |-> IF parseIdAndName(cell).name = "" THEN UNKNOWN_LABEL
                   ELSE parseIdAndName(cell).name]
    ELSE [id |-> UNKNOWN_LABEL, name |-> cell]

\* the four leading cells the claim gives for input row j
ClaimedLead(j) ==
    LET dept == ClaimedLabel(input[LastDepartmentBefore(j)][1])
        whole == Len(input[j]) = Len(input[LastDoctorHeaderBefore(j)]) - 1
        doctor == ClaimedLabel(IF whole THEN "" ELSE input[j][1])
    IN <<dept.id, dept.name, doctor.id, doctor.name>>

\* C14: every department id, department name, doctor id and doctor name of an
\* emitted data row is a non-empty text, and is what the fallback rules give
\* for the cell it was parsed from: digits - text gives (id, name), digits
\* alone (id, Unknown), unknown / null / undefined or an empty cell
\* (Unknown, Unknown), any other text (Unknown, text).
SentinelFallback ==
    (DeptModeApplied /\ output # input) =>
        \A i \in 1..Len(DataRowsOf(output)) :
            LET lead == SubSeq(DataRowsOf(output)[i], 1, 4)
            IN /\ \A k \in 1..4 : lead[k] # ""
               /\ \E j \in CanSurvive : lead = ClaimedLead(j)

UnknownDoctorEmitted ==
    /\ applied = "normalizeRows"
    /\ input = << <<"20 -">>, <<"Doctor Name", "Visits">>, <<"null", "4">>,
                  <<"Smith", "2">> >>
    /\ output = << CanonicalLead \o <<"Visits">>,
                   <<"20", "Unknown", "Unknown", "Unknown", "4">>,
                   <<"20", "Unknown", "Unknown", "Smith", "2">> >>


RECURSIVE ClaimedEmitted(_)
\* whether the claim has input row j emitted: a row of two cells or more under
\* a department and a metrics header that is no totals row, unless it holds
\* digits and separators only and comes right after a totals row or after an
\* emitted row of its department
ClaimedEmitted(j) ==
    /\ j \in CanSurvive
    /\ Len(input[j]) >= 2
    /\ ~isTotalsRow(input[j])
    /\ ~ /\ isNumericOnlyRow(input[j])
         /\ \/ isTotalsRow(input[j - 1])
            \/ \E k \in (LastDepartmentBefore(j) + 1)..(j - 1) : ClaimedEmitted(k)

\* C15: in department-grouped mode the emitted data rows are exactly the rows
\* of two cells or more under a department and a metrics header that are no
\* totals rows, less the rows of digits and separators only that come right
\* after a totals row or after an emitted row of the same department.
RollupSuppression ==
    (DeptModeApplied /\ output # input) =>
        DataRowsOf(output) = RowsOfSet({j \in 1..Len(input) : ClaimedEmitted(j)})


HasDepartmentHeader ==
    \E i \in 1..Len(input) : Len(input[i]) = 1 /\ parseIdAndName(input[i][1]).ok

HasMetricsHeader ==
    \E i \in 1..Len(input) :
        Len(input[i]) > 0 /\ ToLowerCase(Trim(input[i][1])) = "doctor name"

\* C16: normalizeRows gives the department-grouped normalization of the table
\* exactly when the table has a department-header row and a metrics-header
\* row; otherwise it gives the input rows, in order and unchanged, without
\* the totals rows.
ModeSelection ==
    applied = "normalizeRows" =>
        output = IF HasDepartmentHeader /\ HasMetricsHeader
                 THEN normalizeDepartmentReport(input)
                 ELSE SelectSeq(input, NotTotalsRow)

PassedThroughWithoutTotals ==
    /\ applied = "normalizeRows"
    /\ input = << <<"Doctor Name", "Visits">>, <<"1 - Smith", "5">>, <<"TOTAL", "9">> >>
    /\ output = << <<"Doctor Name", "Visits">>, <<"1 - Smith", "5">> >>


\* C17: a conversion of markup from which no row is extracted (no row marker,
\* rows without cell markers, rows whose cells are all empty) ends with an
\* error.
ZeroRowsRaise ==
    (applied \in {"convertHtmlToCsv", "uploadConvertHtmlToCsv"}
     /\ extractRows(input) = <<>>) => output.result = "error"


\* yyyy-mm, and yyyy-mm-dd when withDay
IsoForm(p, withDay) ==
    /\ Len(p) = IF withDay THEN 10 ELSE 7
    /\ AllChars(SubSeq(p, 1, 4), Digits) /\ CharAt(p, 5) = "-"
    /\ AllChars(SubSeq(p, 6, 7), Digits)
    /\ withDay => (CharAt(p, 8) = "-" /\ AllChars(SubSeq(p, 9, 10), Digits))

DaysInMonth(y, m) ==
    IF m = 2 THEN (IF (y % 4 = 0 /\ y % 100 # 0) \/ y % 400 = 0 THEN 29 ELSE 28)
    ELSE IF m \in {4, 6, 9, 11} THEN 30 ELSE 31

RECURSIVE DaysBeforeMonth(_, _)
DaysBeforeMonth(y, m) ==
    IF m = 1 THEN 0 ELSE DaysBeforeMonth(y, m - 1) + DaysInMonth(y, m - 1)

\* the number of the day y-m-d, counted from 0001-01-01 as day 1
DayNumber(y, m, d) ==
    365 * (y - 1) + (y - 1) \div 4 - (y - 1) \div 100 + (y - 1) \div 400
    + DaysBeforeMonth(y, m) + d

\* whether iso is the y-mm-dd of the day n days after 1899-12-30
IsDaysAfterEpoch(iso, n) ==
    /\ Len(iso) >= 10
    /\ AllChars(SubSeq(iso, 1, Len(iso) - 6), Digits)
    /\ CharAt(iso, Len(iso) - 5) = "-" /\ CharAt(iso, Len(iso) - 2) = "-"
    /\ AllChars(SubSeq(iso, Len(iso) - 4, Len(iso) - 3), Digits)
    /\ AllChars(SubSeq(iso, Len(iso) - 1, Len(iso)), Digits)
    /\ LET y == ParseNat(SubSeq(iso, 1, Len(iso) - 6), 0)
           m == ParseNat(SubSeq(iso, Len(iso) - 4, Len(iso) - 3), 0)
           d == ParseNat(SubSeq(iso, Len(iso) - 1, Len(iso)), 0)
       IN /\ m \in 1..12 /\ d \in 1..DaysInMonth(y, m)
          /\ DayNumber(y, m, d) = DayNumber(1899, 12, 30) + n

\* what the rules give for a period p whose serial form is told by IsCount
PeriodRule(p, out, isCount, other) ==
    IF IsoForm(p, FALSE) THEN out = p \o "-01"
    ELSE IF IsoForm(p, TRUE) THEN out = p
    ELSE IF isCount THEN IsDaysAfterEpoch(out, ParseNat(SubSeq(p, 1, DigitPrefixLen(p)), 0))
    ELSE out = other

\* C18 as stated: yyyy-mm gets -01 appended, yyyy-mm-dd is unchanged, a text
\* of digits only becomes the date that many days after 1899-12-30, every
\* other input comes back verbatim.
PeriodAsStated ==
    applied = "normalizePeriod" =>
        PeriodRule(input.period, output,
                   input.period # "" /\ AllChars(input.period, Digits), input.period)

\* C18: the rules hold of the input with its surrounding white space removed;
\* digits followed by a point and zeros only count as the digits alone; every
\* other input comes back trimmed.
PeriodOfTrimmed ==
    applied = "normalizePeriod" =>
        LET p == Trim(input.period)
            n == DigitPrefixLen(p)
        IN PeriodRule(p, output,
                      n > 0 /\ (n = Len(p) \/ (n + 1 < Len(p) /\ CharAt(p, n + 1) = "."
                                               /\ AllChars(SubSeq(p, n + 2, Len(p)), {"0"}))),
                      p)

SerialNormalized ==
    /\ applied = "normalizePeriod" /\ input.period = "45870" /\ output = "2025-08-01"


\* the rows the claim has the augmentation give: the period's date in the
\* Date column and the clinic in the Clinic column of every data row, a
\* column the header lacks being put first
ClaimedAugmented(rows, date, clinic) ==
    LET dateIndex == FirstIndex(rows[1], "date", 1)
        clinicIndex == FirstIndex(rows[1], "clinic", 1)
    IN [i \in 1..Len(rows) |->
          (IF clinicIndex = 0 THEN <<IF i = 1 THEN "Clinic" ELSE clinic>> ELSE <<>>)
          \o (IF dateIndex = 0 THEN <<IF i = 1 THEN "Date" ELSE date>> ELSE <<>>)
          \o [c \in 1..Len(rows[i]) |->
                IF i > 1 /\ c = dateIndex THEN date
                ELSE IF i > 1 /\ c = clinicIndex THEN clinic
                ELSE rows[i][c]]]

\* C19: for every dataset, period and clinic the augmented dataset has a Date
\* and a Clinic column, every data row holding the normalized period and the
\* clinic (Unknown when none is given); an existing column is overwritten in
\* place, a missing one is put first, and the other cells are unchanged.
AugmentedColumns ==
    applied = "formatNumericColumns" =>
        output.dated = ClaimedAugmented(input.rows, normalizePeriod(input.period),
                                        IF input.clinic = "" THEN UNKNOWN_LABEL
                                        ELSE input.clinic)


\* the formatted rows when the columns of `numeric` are the numeric ones: empty
\* cells of a numeric column are 0, its other cells their number, and every
\* other cell is as it was
FormattedWith(rows, numeric) ==
    [i \in 1..Len(rows) |->
        [c \in 1..Len(rows[i]) |->
            IF i = 1 \/ c \notin numeric THEN Str(rows[i][c])
            ELSE IF rows[i][c] = "" THEN Num("0")
            ELSE Num(NumberOf(rows[i][c]).v)]]

\* the columns whose name is none of the excluded ones and whose non-empty
\* values all parse as numbers
AllParseColumns(rows) ==
    {c \in 1..Len(rows[1]) :
        /\ ToLowerCase(Trim(rows[1][c])) \notin NumericExclusions
        /\ \A i \in 2..Len(rows) : rows[i][c] # "" => NumberOf(rows[i][c]).finite}

\* C20 as stated: a column is numeric exactly when its name is not excluded
\* and every non-empty value in it parses as a number.
NumericAsStated ==
    applied = "formatNumericColumns" =>
        output.formatted = FormattedWith(output.normalized,
                                         AllParseColumns(output.normalized))

\* C20: a column is numeric exactly when its name is not empty and not
\* excluded, it has a non-empty value, and every non-empty value in it parses
\* as a number; its empty cells become 0, its other cells their number, and
\* all cells of the other columns are unchanged.
NumericCoercion ==
    applied = "formatNumericColumns" =>
        output.formatted =
            FormattedWith(output.normalized,
                          {c \in AllParseColumns(output.normalized) :
                              /\ Trim(output.normalized[1][c]) # ""
                              /\ \E i \in 2..Len(output.normalized) :
                                    output.normalized[i][c] # ""})

EmptyAmountBecameZero ==
    /\ applied = "formatNumericColumns"
    /\ input = [kind |-> "rows", period |-> "", clinic |-> "",
                rows |-> << <<"Doctor Name", "Amount">>, <<"x", "5">>, <<"", "">> >>]
    /\ output.formatted[2] = <<Str("Unknown"), Str("x"), Num("5")>>
    /\ output.formatted[3] = <<Str("Unknown"), Str("Unknown"), Num("0")>>


\* whether the header row of a file has a department id column
HasDepartmentId(file) ==
    \E c \in 1..Len(file[1]) : ToLowerCase(Trim(file[1][c])) = "department id"

RECURSIVE JoinedFiles(_, _)
\* the rows of the first file with rows of the wanted shape, then the data
\* rows of every later one
JoinedFiles(files, department) ==
    IF files = <<>> THEN <<>>
    ELSE IF Head(files) = <<>> \/ HasDepartmentId(Head(files)) # department
    THEN JoinedFiles(Tail(files), department)
    ELSE IF JoinedFiles(Tail(files), department) = <<>> THEN Head(files)
    ELSE Head(files) \o Tail(JoinedFiles(Tail(files), department))

\* C21: the department dataset is made of the files whose header row has a
\* department id column, the revenue dataset of the others; each is the first
\* such file's rows followed, in input order, by the data rows of the later
\* ones, so it has one header row.
ShapeConcatenation ==
    applied = "loadDatasets" =>
        /\ output.departmentRows = JoinedFiles(input.files, TRUE)
        /\ output.revenueRows = JoinedFiles(input.files, FALSE)

TwoRevenueFilesJoined ==
    /\ applied = "loadDatasets"
    /\ input.files = <<RevenueCsv, DepartmentCsv, RevenueCsv2>>
    /\ output.revenueRows = <<RevenueCsv[1], RevenueCsv[2], RevenueCsv2[2], RevenueCsv2[3]>>
    /\ output.departmentRows = DepartmentCsv


\* run r has issued, or is about to issue, a call on tab
CallsOn(r, tab) ==
    \/ req[r].tab = tab
    \/ \E i \in 1..Len(log[r]) : log[r][i].tab = tab

\* a count given on the command line, as the summary row shows it
CountShown(text) == IF text = "" THEN "0" ELSE text

\* the summary row of a run with a yyyy-mm period, as the destination shows it
SummaryShown(a) ==
    StripEmptyTail(<< a.reportPeriod \o "-01", a.clinicName,
                      CountShown(a.medicalComplaints),
                      CountShown(a.administrativeComplaints),
                      CountShown(a.referrals), a.remarks >>, "")

\* C22: a run calls the Other destination only when both clinic and period
\* are given, and a completed run with both given has called it; the dataset
\* is then the fixed header and one row with the normalized period as Date;
\* after completed sequential runs the destination holds, for the key of the
\* last run, exactly one data row, with the values of that run.
SideDataset ==
    \A r \in Runs :
        LET a == args[r]
            given == a.clinicName # "" /\ a.reportPeriod # ""
            other == datasets[r][OTHER_TAB]
        IN /\ CallsOn(r, OTHER_TAB) => given
           /\ (status[r] = "done" /\ given) => CallsOn(r, OTHER_TAB)
           /\ (status[r] # "idle" /\ ~given) => other = <<>>
           /\ (status[r] # "idle" /\ given) =>
                 /\ Len(other) = 2
                 /\ Texts(other[1]) = <<"Date", "Clinic", "Medical Complaints",
                                        "Administrative Complaints", "Referrals", "Remarks">>
                 /\ StripEmptyTail(Texts(other[2]), "") = SummaryShown(a)
           /\ ( /\ given
                /\ \A q \in Runs : status[q] = (IF q <= r THEN "done" ELSE "idle")
                /\ \A q \in Runs : AllOk(q) )
              => RowsOfKey(sheet[OTHER_TAB],
                           [date |-> a.reportPeriod \o "-01", clinic |-> a.clinicName])
                    = <<SummaryShown(a)>>

SummaryReplaced ==
    /\ status[1] = "done" /\ status[2] = "done"
    /\ args[1].medicalComplaints = "3" /\ args[2].medicalComplaints = ""
    /\ args[1].clinicName = args[2].clinicName
    /\ args[1].reportPeriod = args[2].reportPeriod
    /\ Len(sheet[OTHER_TAB]) = 2
    /\ sheet[OTHER_TAB][2] = <<"2025-08-01", "Qurtubah", "0", "0", "0">>


\* C23: a file that cannot be read is reported and the batch goes on; every
\* readable file with rows has its .csv, whatever failed before or after it;
\* a file without normalized rows is warned about and has no .csv; the exit
\* status is not zero when a file failed.
BatchGoesOn ==
    applied \in {"main", "exit"} =>
        /\ applied = "exit" => output.next = Len(input) + 1
        /\ \A i \in 1..Len(input) :
              i < output.next =>
                 LET file == input[i]
                     rows == IF file.readable THEN normalizeRows(extractRows(file.html))
                             ELSE <<>>
                 IN /\ (i \in output.failed) = ~file.readable
                    /\ (i \in output.warned) = (file.readable /\ rows = <<>>)
                    /\ (output.written[i] # "") = (file.readable /\ rows # <<>>)
                    /\ rows # <<>> => output.written[i] = csvFileOf(rows).csv
        /\ \A i \in 1..Len(input) : i >= output.next => output.written[i] = ""
        /\ output.failed # {} => output.exitCode # 0

ConvertedAroundFailure ==
    /\ applied = "exit"
    /\ Len(input) = 3
    /\ output.written[1] = "A" /\ output.failed = {2} /\ output.written[3] = "\"a,b\"\n5"
    /\ output.exitCode = 1


\* the first line of a CSV text
FirstLine(csv) ==
    IF IndexOfChar(csv, "\n", 1) = 0 THEN csv
    ELSE SubSeq(csv, 1, IndexOfChar(csv, "\n", 1) - 1)

\* C24: the CSV the form server's convertHtmlToCsv writes for a page is the
\* CSV convertHtmlToCsv of html-to-csv.js writes for it, and one writes a
\* file exactly when the other does; the CSV of an uploaded department report
\* starts with a header row that has a Department ID column.
UploadMatchesConverter ==
    applied = "uploadConvertHtmlToCsv" =>
        /\ (output.result = "written") = (convertHtmlToCsv(input).result = "written")
        /\ output.csv = convertHtmlToCsv(input).csv
        /\ (looksLikeDepartmentReport(extractRows(input)) /\ output.result = "written")
              => HasDepartmentId(<<splitCsvLine(FirstLine(output.csv))>>)


\* a displayed row of a destination with the given header row is not of the
\* key pushToSheet reads from the first data row of rows: its normalized Date
\* differs, or the header has a Clinic column and its Clinic differs
OfOtherKey(header, row, rows) ==
    \/ ~Truthy(targetDate(rows))
    \/ findColumnIndex(header, "date") = 0
    \/ KeyOf(header, row).date # normalizePeriod(targetDate(rows).v)
    \/ /\ findColumnIndex(header, "clinic") # 0
       /\ targetClinic(rows) # Null
       /\ KeyOf(header, row).clinic # targetClinic(rows).v

\* the rows of a displayed table between its header row and its last n rows
BodyBefore(table, n) == SubSeq(table, 2, Len(table) - n)

\* runs 1 and 2 have completed one after the other, no other run was started
TwoRunsCompleted ==
    \A q \in Runs : status[q] = (IF q <= 2 THEN "done" ELSE "idle")

\* the rows of the table that are of another key than that of rows
OtherKeyRows(header, table, rows) ==
    LET other(row) == OfOtherKey(header, row, rows)
    IN SelectSeq(table, other)

\* C25: when a run whose calls all succeeded has upserted rows into a
\* destination that held the rows of an earlier run, the header row is the
\* one that was there, the rows of other keys that were there are all there,
\* unchanged and in their order, and the new rows come after them.
UpsertFrame ==
    \A tab \in Tabs :
        ( /\ TwoRunsCompleted /\ AllOk(1) /\ AllOk(2)
          /\ Len(datasets[1][tab]) > 0 /\ Len(datasets[2][tab]) > 1 )
        => LET before == Shown(datasets[1][tab])
               new == Tail(Shown(datasets[2][tab]))
           IN /\ sheet[tab][1] = before[1]
              /\ IsSuffix(new, sheet[tab])
              /\ Len(sheet[tab]) > Len(new)
              /\ OtherKeyRows(before[1], BodyBefore(sheet[tab], Len(new)), datasets[2][tab])
                    = OtherKeyRows(before[1], Tail(before), datasets[2][tab])

\* the run for (2025-07-01, Unknown) has deleted the row of its key and kept
\* the row of 2025-07-02 above the rows it appended
OtherDateKept ==
    /\ TwoRunsCompleted /\ AllOk(1) /\ AllOk(2)
    /\ Len(sheet[BASE_REVENUE_TAB]) = 4
    /\ findColumnIndex(sheet[BASE_REVENUE_TAB][1], "date") # 0
    /\ KeyOf(sheet[BASE_REVENUE_TAB][1], sheet[BASE_REVENUE_TAB][2]).date = "2025-07-02"
    /\ KeyOf(sheet[BASE_REVENUE_TAB][1], sheet[BASE_REVENUE_TAB][3]).date = "2025-07-01"
    /\ \E i \in 1..Len(log[2]) :
          log[2][i] = [tab |-> BASE_REVENUE_TAB, op |-> "update", code |-> OK]


\* C26: when a run that followed a completed run has ended, completed or
\* aborted, every row the destination held of another key than the run's is
\* in the destination.
OtherKeysSurviveRun ==
    \A tab \in Tabs :
        ( /\ status[1] = "done" /\ AllOk(1)
          /\ status[2] \in {"done", "failed"}
          /\ \A q \in Runs : q > 2 => status[q] = "idle"
          /\ Len(datasets[1][tab]) > 0 )
        => LET before == Shown(datasets[1][tab])
           IN \A i \in 2..Len(before) :
                 ( \/ Len(datasets[2][tab]) = 0
                   \/ OfOtherKey(before[1], before[i], datasets[2][tab]) )
                 => \E j \in 1..Len(sheet[tab]) : sheet[tab][j] = before[i]


\* the destination holds no row for removeRowsForDate of rows to delete: it is
\* empty, its header row has no Date column, or no row is of the key of rows
NothingToDelete(table, rows) ==
    \/ Len(table) = 0
    \/ findColumnIndex(table[1], "date") = 0
    \/ \A i \in 2..Len(table) : OfOtherKey(table[1], table[i], rows)

\* C27: when the read of removeRowsForDate finds nothing to delete, no clear
\* and no rewrite follow and the destination is as it was; a clear is issued
\* only after a read that found a row of the run's key, and a rewrite only
\* after a clear.
DeleteWritesOnlyOnMatch ==
    [][ \A r \in Runs :
           /\ (req[r].op = "get" /\ req'[r] # req[r]) =>
                 /\ NothingToDelete(sheet[req[r].tab], datasets[r][req[r].tab])
                       => (req'[r].op \notin {"clear", "update"} /\ sheet' = sheet)
                 /\ req'[r].op = "clear"
                       => ~NothingToDelete(sheet[req[r].tab], datasets[r][req[r].tab])
           /\ (req'[r].op = "clear" /\ req'[r] # req[r]) => req[r].op = "get"
           /\ (req'[r].op = "update" /\ req'[r] # req[r]) => req[r].op = "clear" ]_vars

\* the read has found rows, none of the run's key, and the run goes on with
\* the read of the header row
NothingMatched ==
    \E r \in Runs :
        /\ status[r] = "running" /\ req[r] = Req(BASE_REVENUE_TAB, "getHeader", <<>>)
        /\ log[r] = <<[tab |-> BASE_REVENUE_TAB, op |-> "get", code |-> OK]>>
        /\ Len(sheet[BASE_REVENUE_TAB]) > 1
        /\ findColumnIndex(sheet[BASE_REVENUE_TAB][1], "date") # 0
        /\ NothingToDelete(sheet[BASE_REVENUE_TAB], datasets[r][BASE_REVENUE_TAB])


\* the value of a row in column idx of its dataset, Null past its end
ValueAt(row, idx) == IF idx <= Len(row) THEN row[idx] ELSE Null

\* C28: in every dataset a run pushes, all data rows carry the Date and the
\* Clinic of the first data row.
OneKeyPerDataset ==
    \A r \in Runs, tab \in Tabs :
        (CallsOn(r, tab) /\ Len(datasets[r][tab]) > 1) =>
            LET rows == datasets[r][tab]
                d == findColumnIndex(Texts(rows[1]), "date")
                c == findColumnIndex(Texts(rows[1]), "clinic")
            IN \A i \in 2..Len(rows) :
                  /\ d # 0 => ValueAt(rows[i], d) = ValueAt(rows[2], d)
                  /\ c # 0 => ValueAt(rows[i], c) = ValueAt(rows[2], c)


\* C29: normalizePeriod gives its own results back unchanged, so a row whose
\* Date cell reads as a run wrote it is not kept by the filter of
\* removeRowsForDate for a later run of the same period.
PeriodIdempotent ==
    applied = "normalizePeriod" =>
        /\ normalizePeriod(output) = output
        /\ output # "" =>
              ~KeepsRow(<<output>>, 1, 0, normalizePeriod(normalizePeriod(input.period)), Null)

WrittenDateMatchesLaterTarget ==
    /\ applied = "normalizePeriod" /\ input.period = "2025-08" /\ output = "2025-08-01"
    /\ ~KeepsRow(<<output>>, 1, 0, normalizePeriod("2025-08-01"), Null)
    /\ ~KeepsRow(<<output>>, 1, 0, normalizePeriod("45870"), Null)


\* C30: every row extractRows returns for a converted page has a cell, and
\* every cell is a non-empty text that neither starts nor ends with white
\* space.
ExtractedCellsTrimmed ==
    applied \in {"convertHtmlToCsv", "uploadConvertHtmlToCsv"} =>
        \A i \in 1..Len(extractRows(input)) :
            /\ Len(extractRows(input)[i]) > 0
            /\ \A j \in 1..Len(extractRows(input)[i]) :
                  /\ extractRows(input)[i][j] # ""
                  /\ Trim(extractRows(input)[i][j]) = extractRows(input)[i][j]

=============================================================================
